---- MODULE Spec2Model ----
\* Chain organization core of libbitcoin-node: the organizer (chaser_organize /
\* chaser_header), the download work pool (chaser_check) and the validation
\* advance loop (chaser_preconfirm), over an abstract archive.
EXTENDS Integers, Sequences, FiniteSets, TLC

\* ---------------------------------------------------------------------------
\* Bounds of the model.
\* ---------------------------------------------------------------------------
NumHeaders == 3
MaxProof == 3
MaxInitHeight == 1
MaxFaults == 1

\* ---------------------------------------------------------------------------
\* Identifiers.  A header hash is an integer: 0 is the genesis header,
\* 1..NumHeaders are the headers peers may announce.  A header_link of an
\* archived header is its hash; Terminal is the terminal link.
\* ---------------------------------------------------------------------------
NullHash == 0 - 1
Terminal == 0 - 1
Hashes == 0..NumHeaders

VARIABLES
    hdr,        \* the headers that exist: hash -> [prev, proof, valid]
    config,     \* settings: [checkpoint, milestone] (a hash, 0 when unset)
    is_block,   \* which instantiation of the organizer template runs
    archived,   \* archive: hashes stored as headers (set_link)
    candidate,  \* archive: candidate chain, candidate[i + 1] is height i
    confirmed,  \* archive: confirmed chain, confirmed[i + 1] is height i
    assoc,      \* archive: links whose block (transactions) is stored
    bstate,     \* archive: block state of each link
    tree,       \* organizer tree_: hash -> chain state
    state_,     \* organizer state_ (top_state): cached top chain state
    closed,     \* closed(): the node was closed / faulted
    faults,     \* number of archive failures so far
    admitted,   \* entries for which organize has returned success
    last,       \* the handler that ran last, its input and what it returned
    blocks,     \* archive: the block stored for a link: [malleable, valid]
    subscribers,        \* chasers subscribed to the event bus
    check_strand,       \* events posted to chaser_check's strand, in order
    preconfirm_strand,  \* events posted to chaser_preconfirm's strand
    maps_,      \* chaser_check maps_: queue of chunks of links to download
    taken,      \* chunks handed out by get_hashes and not put back
    validated_, \* chaser_preconfirm validated_
    owed,       \* a disorganized event awaits the state that must follow it
    malleated,  \* links for which a malleated event was emitted
    arrived,    \* heights of checked events not yet handled by preconfirm
    map_,       \* protocol_block_in_31800 map_: the hashes a channel holds
    header_state_,   \* protocol_header_in_31800 state_: rolling chain state
    header_stopped,  \* the header-in channel has been stopped
    posted,     \* organize calls posted to the organizer's strand, in order
    received,   \* the headers message handled last and what came of it
    block_state_,    \* protocol_block_in state_: rolling chain state
    block_stopped,   \* the legacy block-in channel has been stopped
    tracker,    \* protocol_block_in track of the subscribed inventory
    channel_strand  \* events posted to a block-in channel's strand

vars == <<hdr, config, is_block, archived, candidate, confirmed, assoc, bstate,
          tree, state_, closed, faults, admitted, last, blocks, subscribers,
          check_strand, preconfirm_strand, maps_, taken, validated_, owed,
          malleated, arrived, map_, header_state_, header_stopped, posted,
          received, block_state_, block_stopped, tracker, channel_strand>>

\* ---------------------------------------------------------------------------
\* Headers and chain states.
\* ---------------------------------------------------------------------------
HeaderRec == [prev : (0 - 1)..(NumHeaders - 1), proof : 1..MaxProof,
              valid : BOOLEAN]

PrevIn(u, h) == IF h \in DOMAIN u THEN u[h].prev ELSE NullHash

RECURSIVE HeightIn(_, _)
HeightIn(u, h) ==
    IF h = 0 THEN 0
    ELSE IF h \notin DOMAIN u THEN 0 - 1
    ELSE LET p == HeightIn(u, u[h].prev) IN IF p < 0 THEN 0 - 1 ELSE p + 1

RECURSIVE PathIn(_, _)
PathIn(u, h) == IF h = 0 THEN <<0>> ELSE Append(PathIn(u, u[h].prev), h)

previous_block_hash(h) == PrevIn(hdr, h)
proof(h) == IF h \in DOMAIN hdr THEN hdr[h].proof ELSE 1

\* chain_state: the fields the organizer reads.
NoState == [hash |-> NullHash, height |-> 0 - 1, work |-> 0]

\* chain_state{ parent, header, settings }
chain_state(parent, h) ==
    [hash |-> h, height |-> parent.height + 1, work |-> parent.work + proof(h)]

\* ---------------------------------------------------------------------------
\* Archive interface (queries).
\* ---------------------------------------------------------------------------
Sum(f, lo, hi) ==
    LET RECURSIVE S(_)
        S(i) == IF i > hi THEN 0 ELSE f[i] + S(i + 1)
    IN S(lo)

Range(s) == {s[i] : i \in DOMAIN s}
Reverse(s) == [i \in 1..Len(s) |-> s[Len(s) + 1 - i]]

to_header(hash) == IF hash \in archived THEN hash ELSE Terminal
to_parent(link) == to_header(previous_block_hash(link))
get_height(link) == HeightIn(hdr, link)
get_top_candidate == Len(candidate) - 1
get_top_confirmed == Len(confirmed) - 1
to_candidate(height) ==
    IF height + 1 \in DOMAIN candidate THEN candidate[height + 1] ELSE Terminal
to_confirmed(height) ==
    IF height + 1 \in DOMAIN confirmed THEN confirmed[height + 1] ELSE Terminal
is_candidate_block(link) == link # Terminal /\ link \in Range(candidate)

\* Highest confirmed height at which candidate and confirmed chains agree.
get_fork ==
    LET agree == {h \in 0..get_top_confirmed : to_confirmed(h) = to_candidate(h)}
    IN IF agree = {} THEN 0
       ELSE CHOOSE h \in agree : \A g \in agree : g <= h

\* Chain state of the candidate at the given height, null above the top.
candidate_chain_state(cand, height) ==
    IF height < 0 \/ height >= Len(cand) THEN NoState
    ELSE [hash |-> cand[height + 1], height |-> height,
          work |-> Sum([i \in DOMAIN cand |-> proof(cand[i])], 1, height + 1)]

get_candidate_chain_state(height) == candidate_chain_state(candidate, height)

\* ---------------------------------------------------------------------------
\* Organizer: private helpers.
\* ---------------------------------------------------------------------------
\* Obtains from state_, tree, or store as applicable.
get_chain_state(hash) ==
    IF state_ = NoState THEN NoState
    ELSE IF state_.hash = hash THEN state_
    ELSE IF hash \in DOMAIN tree THEN tree[hash]
    ELSE IF to_header(hash) # Terminal
         THEN get_candidate_chain_state(get_height(to_header(hash)))
    ELSE NoState

\* get_branch_work, first loop: sum all branch work from tree.
RECURSIVE tree_walk(_, _, _)
tree_walk(previous, branch, work) ==
    IF previous \in DOMAIN tree
    THEN tree_walk(previous_block_hash(previous), Append(branch, previous),
                   work + proof(previous))
    ELSE [previous |-> previous, tree_branch |-> branch, work |-> work]

\* get_branch_work, second loop: sum branch work from store.
RECURSIVE store_walk(_, _, _)
store_walk(link, branch, work) ==
    IF is_candidate_block(link)
    THEN [ok |-> TRUE, link |-> link, store_branch |-> branch, work |-> work]
    ELSE IF link = Terminal
    THEN [ok |-> FALSE, link |-> link, store_branch |-> branch, work |-> work]
    ELSE store_walk(to_parent(link), Append(branch, link), work + proof(link))

get_branch_work(h) ==
    LET t == tree_walk(previous_block_hash(h), <<>>, proof(h))
        s == store_walk(to_header(t.previous), <<>>, t.work)
    IN [ok |-> s.ok, work |-> s.work, tree_branch |-> t.tree_branch,
        store_branch |-> s.store_branch,
        branch_point |-> IF s.ok THEN get_height(s.link) ELSE 0]

\* (mutation of strong_loop: equal work counts as strong)
RECURSIVE strong_loop_equal(_, _, _, _)
strong_loop_equal(height, candidate_work, work, branch_point) ==
    IF height > branch_point
    THEN LET cw == candidate_work + proof(to_candidate(height))
         IN IF cw > work THEN FALSE
            ELSE strong_loop_equal(height - 1, cw, work, branch_point)
    ELSE TRUE

\* Not strong if candidate work equals or exceeds new work.
RECURSIVE strong_loop(_, _, _, _)
strong_loop(height, candidate_work, work, branch_point) ==
    IF height > branch_point
    THEN LET cw == candidate_work + proof(to_candidate(height))
         IN IF cw >= work THEN FALSE
            ELSE strong_loop(height - 1, cw, work, branch_point)
    ELSE TRUE

get_is_strong(work, branch_point) ==
    strong_loop(get_top_candidate, 0, work, branch_point)

\* ---------------------------------------------------------------------------
\* Archive interface (mutations), as steps of a handler.  A handler's archive
\* writes are a sequence of steps run in order until one fails; st is the
\* archive and tree as the handler sees them.
\* ---------------------------------------------------------------------------
St0 == [cand |-> candidate, arch |-> archived, tree |-> tree,
        bst |-> bstate, ok |-> TRUE]

\* Fails when only the genesis candidate is left.
pop_candidate(st) ==
    IF Len(st.cand) <= 1 THEN [st EXCEPT !.ok = FALSE]
    ELSE [st EXCEPT !.cand = SubSeq(st.cand, 1, Len(st.cand) - 1)]

push_candidate(st, link) ==
    IF link = Terminal THEN [st EXCEPT !.ok = FALSE]
    ELSE [st EXCEPT !.cand = Append(st.cand, link)]

set_link(st, h) == [st EXCEPT !.arch = st.arch \cup {h}]

set_block_unconfirmable(st, link) ==
    IF link = Terminal THEN [st EXCEPT !.ok = FALSE]
    ELSE [st EXCEPT !.bst = [st.bst EXCEPT ![link] = "unconfirmable"]]

\* tree_.extract(key)
extract(st, key) ==
    [st EXCEPT !.tree = [k \in (DOMAIN st.tree) \ {key} |-> st.tree[k]]]

step(st, op) ==
    CASE op[1] = "pop" -> pop_candidate(st)
      [] op[1] = "push" -> push_candidate(st, op[2])
      [] op[1] = "set_link" -> set_link(st, op[2])
      [] op[1] = "mark" -> set_block_unconfirmable(st, op[2])
      [] op[1] = "mark_top" ->
            set_block_unconfirmable(st,
                IF Len(st.cand) > 0 THEN st.cand[Len(st.cand)] ELSE Terminal)
      [] op[1] = "extract" -> extract(st, op[2])

\* Steps that call the archive and so can fail.
fallible(op) == op[1] # "extract"

\* Runs ops in order; step number fail (0: none) fails as an archive failure
\* and leaves the archive as it was.
RECURSIVE run(_, _, _, _)
run(st, ops, i, fail) ==
    IF i > Len(ops) \/ ~st.ok THEN st
    ELSE IF i = fail THEN [st EXCEPT !.ok = FALSE]
    ELSE run(step(st, ops[i]), ops, i + 1, fail)

\* ---------------------------------------------------------------------------
\* Organizer: do_organize.
\* ---------------------------------------------------------------------------
MinimumWork == 3

\* checkpoint::is_at(checkpoints, height); genesis is always a checkpoint.
is_at(height) == height = get_height(config.checkpoint)

\* checkpoint::is_conflict(checkpoints, hash, height)
is_conflict(hash, height) == is_at(height) /\ hash # config.checkpoint

\* milestone_.equals(hash, height)
milestone_equals(hash, height) ==
    config.milestone # 0 /\ hash = config.milestone
        /\ height = get_height(config.milestone)

\* header.check(...) and header.accept(context)
validate(h) == IF hdr[h].valid THEN "success" ELSE "invalid"

\* The gate without the checkpoint and milestone exemptions.
is_storable_gated(h, state, current) ==
    current /\ state.work >= MinimumWork

\* A checkpointed or milestoned branch always gets disk stored. Otherwise
\* branch must be both current and of sufficient chain work to be stored.
is_storable(h, state, current) ==
    \/ is_at(state.height)
    \/ milestone_equals(h, state.height)
    \/ (current /\ state.work >= MinimumWork)

\* chase_object()
chase_object == IF is_block THEN "block" ELSE "header"

\* cache(block_ptr, state)
cache(tr, h, state) ==
    IF h \in DOMAIN tr THEN tr
    ELSE [k \in (DOMAIN tr) \cup {h} |-> IF k = h THEN state ELSE tr[k]]

\* (mutation of pop_ops: stops one candidate short)
pop_ops_short(n) == [i \in 1..(n - 1) |-> <<"pop", 0>>]

\* (mutation of push_key_ops: tree entries are extracted but not stored)
push_key_ops_drop(keys) == [i \in 1..Len(keys) |-> <<"extract", keys[i]>>]

\* (mutation of push_new_ops: the new entry is stored but not pushed)
push_new_ops_unpushed(h) == <<<<"set_link", h>>>>

\* (mutation of push_key_ops: tree entries are pushed and stay in the tree)
push_key_ops_kept(keys) ==
    [i \in 1..(2 * Len(keys)) |->
        IF i % 2 = 1 THEN <<"set_link", keys[(i + 1) \div 2]>>
        ELSE <<"push", keys[i \div 2]>>]

\* The archive writes of a reorganization, in program order.
pop_ops(n) == [i \in 1..n |-> <<"pop", 0>>]
push_ops(links) == [i \in 1..Len(links) |-> <<"push", links[i]>>]
RECURSIVE push_key_ops(_)
push_key_ops(keys) ==
    IF keys = <<>> THEN <<>>
    ELSE <<<<"extract", Head(keys)>>, <<"set_link", Head(keys)>>,
           <<"push", Head(keys)>>>> \o push_key_ops(Tail(keys))
push_new_ops(h) == <<<<"set_link", h>>, <<"push", h>>>>

reorganize_ops(top, bw, h) ==
    pop_ops(top - bw.branch_point)
        \o push_ops(Reverse(bw.store_branch))
        \o push_key_ops(Reverse(bw.tree_branch))
        \o push_new_ops(h)

\* The candidates the call popped are put in the tree.
Result_evicting(code_, height_, st, state, close_, events_) ==
    [code |-> code_, height |-> height_,
     st |-> [st EXCEPT !.tree =
                [k \in (DOMAIN st.tree)
                        \cup (Range(candidate) \ Range(st.cand)) |->
                    IF k \in DOMAIN st.tree THEN st.tree[k]
                    ELSE [hash |-> k, height |-> get_height(k), work |-> 0]]],
     state |-> state, close |-> close_, events |-> events_, handled |-> 1]

\* What a call changes and returns: the handler's code and height, the
\* organizer and archive state it leaves, whether it closed, and how many
\* times it invoked its handler (do_organize: once before each return).
Result(code_, height_, st, state, close_, events_) ==
    [code |-> code_, height |-> height_, st |-> st, state |-> state,
     close |-> close_, events |-> events_, handled |-> 1]

\* The call fails and closes the organizer.
Unchanged_closing(code_, height_) ==
    Result(code_, height_, St0, state_, TRUE, <<>>)

Unchanged(code_, height_) ==
    Result(code_, height_, St0, state_, FALSE, <<>>)

Failed(height_, st) ==
    Result("store_integrity", height_, st, state_, TRUE, <<>>)

\* The entry is cached and the call returns before its handler is invoked.
Cached_unhandled(h, state) ==
    [Result("success", state.height,
            [St0 EXCEPT !.tree = cache(tree, h, state)], state_, FALSE, <<>>)
        EXCEPT !.handled = 0]

Cached(h, state) ==
    Result("success", state.height,
           [St0 EXCEPT !.tree = cache(tree, h, state)], state_, FALSE, <<>>)

\* (mutation of in_tree: the tree is not consulted)
in_tree_never(h) == FALSE

\* tree_.find(hash) != tree_.end()
in_tree(h) == h \in DOMAIN tree

\* fault names the archive call that fails, if any: a read ("get_height",
\* "get_branch_work", "get_is_strong") or the k-th write of the reorganization
\* (<<"write", k>>).
do_organize(h, current, fault) ==
    IF closed THEN Unchanged("service_stopped", 0)
    ELSE IF in_tree(h) THEN Unchanged("duplicate", tree[h].height)
    ELSE IF to_header(h) # Terminal /\ fault[1] = "get_height"
    THEN Failed(0, St0)
    ELSE IF to_header(h) # Terminal /\ bstate[h] = "unconfirmable"
    THEN Unchanged("block_unconfirmable", get_height(h))
    ELSE IF to_header(h) # Terminal /\ (~is_block \/ h \in assoc)
    THEN Unchanged("duplicate", get_height(h))
    ELSE
    LET parent == get_chain_state(previous_block_hash(h)) IN
    IF parent = NoState THEN Unchanged("orphan", 0)
    ELSE
    LET state == chain_state(parent, h)
        height == state.height
    IN
    IF is_conflict(h, height) THEN Unchanged("checkpoint_conflict", height)
    ELSE IF validate(h) # "success" THEN Unchanged(validate(h), height)
    ELSE IF ~is_storable(h, state, current) THEN Cached(h, state)
    ELSE
    LET bw == get_branch_work(h) IN
    IF ~bw.ok \/ fault[1] = "get_branch_work" THEN Failed(height, St0)
    ELSE IF fault[1] = "get_is_strong" THEN Failed(height, St0)
    ELSE IF ~get_is_strong(bw.work, bw.branch_point) THEN Cached(h, state)
    ELSE IF state_.height < bw.branch_point THEN Failed(height, St0)
    ELSE
    LET ops == reorganize_ops(state_.height, bw, h)
        st == run(St0, ops, 1, IF fault[1] = "write" THEN fault[2] ELSE 0)
    IN
    IF ~st.ok THEN Failed(height, st)
    ELSE Result("success", height, st, state, FALSE,
                IF is_block \/ current
                THEN <<[tag |-> chase_object, value |-> bw.branch_point]>>
                ELSE <<>>)

\* ---------------------------------------------------------------------------
\* chaser_header: the header organizer's own do_organize.
\* ---------------------------------------------------------------------------
\* handler(error::store_integrity, height); return.
HeaderFailed(height_, st) ==
    Result("store_integrity", height_, st, state_, FALSE, <<>>)

\* query.is_header(hash)
is_header(h) == to_header(h) # Terminal

\* chaser_header::do_organize; fault as in do_organize.
header_do_organize(h, current, fault) ==
    IF closed THEN Unchanged("service_stopped", 0)
    ELSE IF in_tree(h) \/ is_header(h) THEN Unchanged("duplicate", 0)
    ELSE
    LET parent == get_chain_state(previous_block_hash(h)) IN
    IF parent = NoState THEN Unchanged("orphan", 0)
    ELSE
    LET state == chain_state(parent, h)
        height == state.height
    IN
    IF is_conflict(h, height) THEN Unchanged("checkpoint_conflict", height)
    ELSE IF validate(h) # "success" THEN Unchanged(validate(h), height)
    ELSE IF ~is_storable(h, state, current) THEN Cached(h, state)
    ELSE
    LET bw == get_branch_work(h) IN
    IF ~bw.ok \/ fault[1] = "get_branch_work" THEN HeaderFailed(height, St0)
    ELSE IF fault[1] = "get_is_strong" THEN HeaderFailed(height, St0)
    ELSE IF ~get_is_strong(bw.work, bw.branch_point) THEN Cached(h, state)
    ELSE IF state_.height < bw.branch_point THEN HeaderFailed(height, St0)
    ELSE
    LET ops == reorganize_ops(state_.height, bw, h)
        st == run(St0, ops, 1, IF fault[1] = "write" THEN fault[2] ELSE 0)
    IN
    IF ~st.ok THEN HeaderFailed(height, st)
    ELSE Result("success", height, st, state, FALSE,
                <<[tag |-> "header", value |-> bw.branch_point]>>)

\* ---------------------------------------------------------------------------
\* Organizer: do_disorganize.
\* ---------------------------------------------------------------------------
\* get_block(out, index): the entry that was candidate at the given height
\* when the handler was entered.
get_block(index) == to_candidate(index)

\* Pop from top down to and including header marking each as unconfirmable.
RECURSIVE mark_pop_ops(_)
mark_pop_ops(n) ==
    IF n <= 0 THEN <<>>
    ELSE <<<<"mark_top", 0>>, <<"pop", 0>>>> \o mark_pop_ops(n - 1)

\* (mutation of copy_to_tree: every entry is cached with the fork point's
\* state, not with the state rolled forward to it)
RECURSIVE copy_to_tree_flat(_, _, _, _, _)
copy_to_tree_flat(tr, state, index, last_index, missing) ==
    IF index > last_index THEN [ok |-> TRUE, tree |-> tr]
    ELSE IF get_block(index) = Terminal \/ index = missing
    THEN [ok |-> FALSE, tree |-> tr]
    ELSE copy_to_tree_flat(
             cache(tr, get_block(index), chain_state(state, get_block(index))),
             state, index + 1, last_index, missing)

\* Copy candidates from above fork point to top into header tree: caches
\* get_block(index) for index from first through last, each with the state
\* rolled forward from the one below, until a block is missing.
RECURSIVE copy_to_tree(_, _, _, _, _)
copy_to_tree(tr, state, index, last_index, missing) ==
    IF index > last_index THEN [ok |-> TRUE, tree |-> tr]
    ELSE IF get_block(index) = Terminal \/ index = missing
    THEN [ok |-> FALSE, tree |-> tr]
    ELSE LET next == chain_state(state, get_block(index))
         IN copy_to_tree(cache(tr, get_block(index), next), next, index + 1,
                         last_index, missing)

\* Push confirmed headers from above fork point onto candidate chain.
confirmed_ops(fork_point) ==
    [i \in 1..(get_top_confirmed - fork_point) |->
        <<"push", to_confirmed(fork_point + i)>>]

Closing(code_, st, state) ==
    [Result(code_, 0, st, state, TRUE, <<>>) EXCEPT !.handled = 0]

\* (mutation of Ignored: the return closes the organizer)
Ignored_closing(code_) ==
    [Result(code_, 0, St0, state_, TRUE, <<>>) EXCEPT !.handled = 0]

\* do_disorganize returns without effect; it has no handler.
Ignored(code_) == [Unchanged(code_, 0) EXCEPT !.handled = 0]

\* fault names the archive call that fails, if any: "get_height",
\* "get_candidate_chain_state", the block to get (<<"get_block", index>>) or
\* the k-th archive write (<<"write", k>>).
do_disorganize(link, fault) ==
    IF closed THEN Ignored("service_stopped")
    ELSE IF ~is_candidate_block(link) THEN Ignored("ignored")
    ELSE IF fault[1] = "get_height" \/ get_height(link) = 0
    THEN Closing("internal_error", St0, state_)
    ELSE
    LET height == get_height(link)
        fork_point == get_fork
    IN
    IF height <= fork_point THEN Closing("internal_error", St0, state_)
    ELSE
    LET write == IF fault[1] = "write" THEN fault[2] ELSE 0
        ops1 == mark_pop_ops(get_top_candidate - height) \o pop_ops(1)
        st1 == run(St0, ops1, 1, write)
    IN
    IF ~st1.ok THEN Closing("store_integrity", st1, state_)
    ELSE
    LET top_candidate == state_.height
        reset == IF fault[1] = "get_candidate_chain_state" THEN NoState
                 ELSE candidate_chain_state(st1.cand, fork_point)
    IN
    IF reset = NoState THEN Closing("store_integrity", st1, reset)
    ELSE
    LET copy == copy_to_tree(st1.tree, reset, fork_point + 1, top_candidate,
                    IF fault[1] = "get_block" THEN fault[2] ELSE 0 - 1)
        st2 == [st1 EXCEPT !.tree = copy.tree]
    IN
    IF ~copy.ok THEN Closing("store_integrity", st2, reset)
    ELSE
    LET ops2 == pop_ops(top_candidate - fork_point)
                    \o confirmed_ops(fork_point)
        st3 == run(st2, ops2, 1,
                   IF write > Len(ops1) THEN write - Len(ops1) ELSE 0)
    IN
    IF ~st3.ok THEN Closing("store_integrity", st3, reset)
    ELSE [Result("success", get_top_confirmed, st3, reset, FALSE,
                 <<[tag |-> "disorganized", value |-> get_top_confirmed]>>)
            EXCEPT !.handled = 0]

\* ---------------------------------------------------------------------------
\* chaser_check: the download work pool.
\* ---------------------------------------------------------------------------
inventory_ == 2

\* query.get_unassociated_above(start, count): the first count candidates
\* above the start height whose block is not stored, by ascending height.
get_unassociated_above(start, count) ==
    LET above == IF start + 2 > Len(candidate) THEN <<>>
                 ELSE SubSeq(candidate, start + 2, Len(candidate))
        all == SelectSeq(above, LAMBDA link : link \notin assoc)
    IN IF Len(all) <= count THEN all ELSE SubSeq(all, 1, count)

make_map(start, count) == get_unassociated_above(start, count)

\* (mutation of get_unassociated: each scan starts over from the given height)
RECURSIVE get_unassociated_restarting(_, _)
get_unassociated_restarting(table, start) ==
    LET map == make_map(start, inventory_) IN
    IF map = <<>> THEN [table |-> table, added |-> 0]
    ELSE [table |-> Append(table, map), added |-> Len(map)]

\* Appends chunks to the table until the scan comes back empty.
RECURSIVE get_unassociated(_, _)
get_unassociated(table, start) ==
    LET map == make_map(start, inventory_) IN
    IF map = <<>> THEN [table |-> table, added |-> 0]
    ELSE LET rest == get_unassociated(Append(table, map),
                                      get_height(map[Len(map)]))
         IN [table |-> rest.table, added |-> rest.added + Len(map)]

\* (mutation of get_map: the chunk is taken from the back)
get_map_back(table) ==
    IF table = <<>> THEN [map |-> <<>>, table |-> table]
    ELSE [map |-> table[Len(table)],
          table |-> SubSeq(table, 1, Len(table) - 1)]

get_map(table) ==
    IF table = <<>> THEN [map |-> <<>>, table |-> table]
    ELSE [map |-> Head(table), table |-> Tail(table)]

do_add_headers(branch_point) ==
    LET scan == get_unassociated(maps_, branch_point) IN
    [maps |-> scan.table,
     events |-> IF scan.added = 0 THEN <<>>
                ELSE <<[tag |-> "download", value |-> scan.added]>>]

\* (mutation of do_purge_headers: purge is emitted over the queue as it is)
do_purge_headers_kept(top) ==
    [maps |-> maps_, events |-> <<[tag |-> "purge", value |-> top]>>]

do_purge_headers(top) ==
    [maps |-> <<>>, events |-> <<[tag |-> "purge", value |-> top]>>]

\* (mutation of do_get_hashes: nothing is handed out)
do_get_hashes_none == [map |-> <<>>, table |-> maps_]

do_get_hashes == get_map(maps_)

\* (mutation of do_put_hashes: the chunk is restored to the front)
do_put_hashes_front(map) ==
    IF map # <<>>
    THEN [maps |-> <<map>> \o maps_,
          events |-> <<[tag |-> "download", value |-> Len(map)]>>]
    ELSE [maps |-> maps_, events |-> <<>>]

\* (mutation of do_put_hashes: the chunk is announced and not queued)
do_put_hashes_unqueued(map) ==
    IF map # <<>>
    THEN [maps |-> maps_,
          events |-> <<[tag |-> "download", value |-> Len(map)]>>]
    ELSE [maps |-> maps_, events |-> <<>>]

\* (mutation of do_put_hashes: the chunk is queued and not announced)
do_put_hashes_silent(map) ==
    IF map # <<>>
    THEN [maps |-> Append(maps_, map), events |-> <<>>]
    ELSE [maps |-> maps_, events |-> <<>>]

do_put_hashes(map) ==
    IF map # <<>>
    THEN [maps |-> Append(maps_, map),
          events |-> <<[tag |-> "download", value |-> Len(map)]>>]
    ELSE [maps |-> maps_, events |-> <<>>]

\* ---------------------------------------------------------------------------
\* chaser_preconfirm: the validation advance loop.
\* ---------------------------------------------------------------------------
\* query.is_associated(link), query.is_malleable(link)
is_associated(link) == link # Terminal /\ link \in assoc
is_malleable(link) == blocks[link].malleable

\* is_under_bypass(height): at or below the configured bypass height.
is_under_bypass(height) == height <= config.bypass

\* query.get_block_state(link) as a code.
get_block_state(bst, link) ==
    IF bst[link] = "unknown" THEN "unvalidated" ELSE "block_" \o bst[link]

\* fault names the archive call that fails, if any, and the height at which it
\* fails: "get_block", "set_block_unconfirmable" or "set_block_preconfirmable".
preconfirm_validate(bst, link, height, fault) ==
    IF is_under_bypass(height) /\ ~is_malleable(link) THEN "validation_bypass"
    ELSE IF bst[link] # "unknown" THEN get_block_state(bst, link)
    ELSE IF fault = <<"get_block", height>> THEN "store_integrity"
    ELSE IF blocks[link].valid THEN "success"
    ELSE "block_invalid"

Bumped(validated, bst, events_, fault_) ==
    [validated |-> validated, bst |-> bst, events |-> events_,
     fault |-> fault_]

\* (mutation of on_malleable: a malleable block is marked like any other)
on_malleable_marked(b, link) ==
    Bumped(b.validated, [b.bst EXCEPT ![link] = "unconfirmable"],
           Append(b.events, [tag |-> "unpreconfirmable", value |-> link]),
           FALSE)

\* Validation failed and the block is malleable.
on_malleable(b, link) ==
    Bumped(b.validated, b.bst,
           Append(b.events, [tag |-> "malleated", value |-> link]), FALSE)

\* (mutation of on_unpreconfirmable: the event is sent, the block not marked)
on_unpreconfirmable_unmarked(b, link, code) ==
    Bumped(b.validated, b.bst,
           Append(b.events, [tag |-> "unpreconfirmable", value |-> link]),
           FALSE)

\* Validation failed and the block is not malleable: it is marked
\* unconfirmable unless it already is.
on_unpreconfirmable(b, link, code) ==
    Bumped(b.validated,
           IF code # "block_unconfirmable"
           THEN [b.bst EXCEPT ![link] = "unconfirmable"]
           ELSE b.bst,
           Append(b.events, [tag |-> "unpreconfirmable", value |-> link]),
           FALSE)

\* (mutation of advance: the event is sent twice)
advance_twice(b, bst, height) ==
    Bumped(b.validated + 1, bst,
           b.events \o <<[tag |-> "preconfirmable", value |-> height],
                         [tag |-> "preconfirmable", value |-> height]>>,
           FALSE)

\* (mutation of advance: the event is sent, validated not incremented)
advance_stalled(b, bst, height) ==
    Bumped(b.validated, bst,
           Append(b.events, [tag |-> "preconfirmable", value |-> height]),
           FALSE)

\* Advance: ++validated_ and notify preconfirmable(height).
advance(b, bst, height) ==
    Bumped(b.validated + 1, bst,
           Append(b.events, [tag |-> "preconfirmable", value |-> height]),
           FALSE)

\* (mutation of is_checked: the drain does not look at association)
is_checked_any(link) == link # Terminal

\* Precondition (associated).
is_checked(link) == is_associated(link)

\* The drain loop of do_bump from the given height.
RECURSIVE bump_loop(_, _, _)
bump_loop(height, b, fault) ==
    LET link == to_candidate(height) IN
    IF closed \/ ~is_checked(link) THEN b
    ELSE
    LET code == preconfirm_validate(b.bst, link, height, fault) IN
    IF code \in {"validation_bypass", "block_confirmable",
                 "block_preconfirmable"}
    THEN bump_loop(height + 1, advance(b, b.bst, height), fault)
    ELSE IF code = "store_integrity"
    THEN Bumped(b.validated, b.bst, b.events, TRUE)
    ELSE IF code # "success"
    THEN IF is_malleable(link) THEN on_malleable(b, link)
         ELSE IF code # "block_unconfirmable"
                    /\ fault = <<"set_block_unconfirmable", height>>
         THEN Bumped(b.validated, b.bst, b.events, TRUE)
         ELSE on_unpreconfirmable(b, link, code)
    ELSE IF fault = <<"set_block_preconfirmable", height>>
    THEN Bumped(b.validated, b.bst, b.events, TRUE)
    ELSE bump_loop(height + 1,
            advance(b, [b.bst EXCEPT ![link] = "preconfirmable"], height),
            fault)

\* Validate checked blocks starting immediately after last validated.
do_bump(validated, fault) ==
    bump_loop(validated + 1, Bumped(validated, bstate, <<>>, FALSE), fault)

\* (mutation of do_checked: the drain runs whatever the height)
do_checked_always(validated, height, fault) == do_bump(validated, fault)

\* (mutation of do_checked: the drain runs for the height validated_ itself)
do_checked_at(validated, height, fault) ==
    IF height = validated THEN do_bump(validated, fault)
    ELSE Bumped(validated, bstate, <<>>, FALSE)

\* Candidate block was checked and archived at the given height.
do_checked(validated, height, fault) ==
    IF height = validated + 1 THEN do_bump(validated, fault)
    ELSE Bumped(validated, bstate, <<>>, FALSE)

\* If branch point is at or above last validated there is nothing to do.
do_regressed(branch_point, fault) ==
    do_checked(IF branch_point < validated_ THEN branch_point ELSE validated_,
               branch_point, fault)

\* Revert to confirmed top as the candidate chain is fully reverted.
do_disorganized(top, fault) == do_checked(top, top, fault)

\* ---------------------------------------------------------------------------
\* Initial states: the headers that exist, the settings, and an archive that
\* holds a confirmed chain (candidate = confirmed) as left by an earlier run.
\* ---------------------------------------------------------------------------
BlockStates == {"unknown", "preconfirmable", "confirmable", "unconfirmable"}

\* Shapes of the header tree: a header's parent is one of the two headers
\* announced before it (or genesis).
Shapes ==
    {q \in [1..NumHeaders -> 0..(NumHeaders - 1)] :
        \A h \in 1..NumHeaders : q[h] < h /\ q[h] >= h - 2}

\* A header's proof is the least or the greatest allowed.
Proofs == {1, MaxProof}

\* All headers valid, none orphaned.
Universes ==
    {[h \in 1..NumHeaders |-> [prev |-> pv[h], proof |-> pf[h], valid |-> TRUE]] :
     pv \in Shapes, pf \in [1..NumHeaders -> Proofs]}

\* No checkpoint above genesis; header 2 is the milestone; no block is under
\* validation bypass.
DefaultConfig == [checkpoint |-> 0, milestone |-> 2, bypass |-> 0]

\* Chains the archive can hold at startup.
InitTops(u, c, height) ==
    {h \in Hashes :
        /\ HeightIn(u, h) >= 0 /\ HeightIn(u, h) <= height
        /\ \A i \in DOMAIN PathIn(u, h) :
            LET g == PathIn(u, h)[i] IN
            /\ g # 0 => u[g].valid
            /\ (c.checkpoint # 0 /\ HeightIn(u, g) = HeightIn(u, c.checkpoint))
                  => g = c.checkpoint}

\* A block that is not malleable and passes accept and connect.
GoodBlock == [malleable |-> FALSE, valid |-> TRUE]

NoCall == [op |-> "start", arg |-> 0, current |-> FALSE, code |-> "success",
           height |-> 0, events |-> <<>>, map |-> <<>>, put |-> <<>>]

InitArchive(u, c, top) ==
    /\ hdr = u
    /\ config = c
    /\ candidate = PathIn(u, top)
    /\ confirmed = PathIn(u, top)
    /\ archived = Range(PathIn(u, top))
    /\ assoc = Range(PathIn(u, top))
    /\ bstate = [h \in Hashes |->
                    IF h \in Range(PathIn(u, top)) THEN "confirmable"
                    ELSE "unknown"]
    /\ blocks = [h \in Hashes |-> GoodBlock]

\* No headers message has been handled.
NoMessage == [headers |-> <<>>, handed |-> <<>>, code |-> "success"]

\* protocol_header_in_31800::start: header sync is always candidates.
start_header_in ==
    /\ header_state_ = get_candidate_chain_state(get_top_candidate)
    /\ header_stopped = FALSE

\* No inventory is tracked: every block subscription has been released.
NoTrack == [announced |-> 0, last |-> NullHash, hashes |-> <<>>]

\* protocol_block_in::start: block sync is always confirmeds.
start_block_in ==
    /\ block_state_ = candidate_chain_state(confirmed, get_top_confirmed)
    /\ block_stopped = FALSE
    /\ tracker = NoTrack

\* chaser_organize::start
start_organize ==
    /\ tree = <<>>
    /\ state_ = get_candidate_chain_state(get_top_candidate)
    /\ closed = FALSE

\* chaser_check::start
start_check ==
    /\ maps_ = get_unassociated(<<>>, get_fork).table
    /\ taken = {}
    /\ check_strand = <<>>

\* chaser_preconfirm::start
start_preconfirm ==
    /\ validated_ = get_fork
    /\ preconfirm_strand = <<>>

\* The node started with the given chasers subscribed, under one of the given
\* settings.
InitWith(universes, chasers, settings, height) ==
    /\ \E u \in universes, c \in settings :
         \E top \in InitTops(u, c, height) : InitArchive(u, c, top)
    /\ is_block = FALSE
    /\ start_organize
    /\ start_check
    /\ start_preconfirm
    /\ subscribers = chasers
    /\ faults = 0
    /\ admitted = {}
    /\ last = NoCall
    /\ owed = FALSE
    /\ malleated = {}
    /\ arrived = {}
    /\ map_ = <<>>
    /\ start_header_in
    /\ posted = <<>>
    /\ received = NoMessage
    /\ start_block_in
    /\ channel_strand = <<>>

\* The organizer alone: no other chaser is subscribed to its events.
Init == InitWith(Universes, {}, {DefaultConfig}, MaxInitHeight)

\* ---------------------------------------------------------------------------
\* Actions.
\* ---------------------------------------------------------------------------
NoFault == <<"none", 0>>
ReadFaults == {<<"get_height", 0>>, <<"get_branch_work", 0>>,
               <<"get_is_strong", 0>>}
WriteFaults == {<<"write", k>> : k \in 1..(3 * NumHeaders + 2)}

configVars == <<hdr, config, is_block, subscribers>>
checkVars == <<maps_, taken, map_>>
preconfirmVars == <<validated_, malleated, arrived>>
strandVars == <<check_strand, preconfirm_strand, channel_strand>>
headerInVars == <<header_state_, header_stopped, posted, received>>
blockInVars == <<block_state_, block_stopped, tracker>>

Returns(op_, arg_, current_, r) ==
    [op |-> op_, arg |-> arg_, current |-> current_, code |-> r.code,
     height |-> r.height, events |-> r.events, map |-> <<>>, put |-> <<>>,
     handled |-> r.handled]

Admit(h, r) == IF r.code = "success" THEN admitted \cup {h} ELSE admitted

\* notify(ec, event, value): the event is posted to the strand of each
\* subscribed chaser that handles its tag.
Handled(chaser) ==
    IF chaser = "check" THEN {"header", "disorganized"} ELSE {"disorganized"}

Posted(strand, chaser, events_) ==
    IF chaser \in subscribers
    THEN strand \o SelectSeq(events_, LAMBDA e : e.tag \in Handled(chaser))
    ELSE strand

\* The events of chaser_check that reach the strand of a subscribed block-in
\* channel, in the order they were notified.
Delivered(events_) ==
    IF "channel" \in subscribers
    THEN channel_strand
            \o SelectSeq(events_, LAMBDA e : e.tag \in {"download", "purge"})
    ELSE channel_strand

Emits(events_, tag_) == \E i \in DOMAIN events_ : events_[i].tag = tag_

\* Chain state of the top confirmed block.
confirmed_chain_state == candidate_chain_state(confirmed, get_top_confirmed)

\* The state a disorganized event is to be followed by.
Settled == maps_ = <<>> /\ state_ = confirmed_chain_state

Owes(events_) ==
    /\ "check" \in subscribers
    /\ owed \/ Emits(events_, "disorganized")

Apply(r) ==
    /\ tree' = r.st.tree
    /\ candidate' = r.st.cand
    /\ archived' = r.st.arch
    /\ bstate' = r.st.bst
    /\ state_' = r.state
    /\ closed' = (closed \/ r.close)
    /\ check_strand' = Posted(check_strand, "check", r.events)
    /\ preconfirm_strand' = Posted(preconfirm_strand, "preconfirm", r.events)
    /\ UNCHANGED <<blocks, checkVars, preconfirmVars, channel_strand>>

\* organize(entry, handler): do_organize runs on the organizer's strand.
Organize(h, current) ==
    LET r == do_organize(h, current, NoFault) IN
    /\ UNCHANGED <<headerInVars, blockInVars>>
    /\ UNCHANGED <<configVars, confirmed, assoc, faults>>
    /\ Apply(r)
    /\ last' = Returns("organize", h, current, r)
    /\ admitted' = Admit(h, r)
    /\ owed' = (Owes(r.events) /\ ~Settled')

\* do_organize when one of its archive calls fails.
OrganizeFault(h, current) ==
    /\ faults < MaxFaults
    /\ ~closed
    /\ faults' = faults + 1
    /\ UNCHANGED <<headerInVars, blockInVars>>
    /\ UNCHANGED <<configVars, confirmed, assoc>>
    /\ LET r0 == do_organize(h, current, NoFault) IN
       \E fault \in ReadFaults \cup WriteFaults :
          /\ fault[1] = "get_height" => to_header(h) # Terminal
          /\ fault[1] = "write" => r0.st.cand # candidate
          /\ LET r == do_organize(h, current, fault) IN
             /\ r # r0
             /\ Apply(r)
             /\ last' = Returns("organize", h, current, r)
             /\ admitted' = Admit(h, r)
             /\ owed' = (Owes(r.events) /\ ~Settled')

\* chaser_header::organize(header, handler): do_organize runs on the strand.
HeaderOrganize(h, current) ==
    /\ ~is_block
    /\ UNCHANGED <<headerInVars, blockInVars>>
    /\ UNCHANGED <<configVars, confirmed, assoc, faults>>
    /\ \E r \in {header_do_organize(h, current, NoFault)} :
          /\ Apply(r)
          /\ last' = Returns("organize", h, current, r)
          /\ admitted' = Admit(h, r)
          /\ owed' = (Owes(r.events) /\ ~Settled')

\* chaser_header::do_organize when one of its archive calls fails.
HeaderOrganizeFault(h, current) ==
    /\ ~is_block
    /\ faults < MaxFaults
    /\ ~closed
    /\ faults' = faults + 1
    /\ UNCHANGED <<headerInVars, blockInVars>>
    /\ UNCHANGED <<configVars, confirmed, assoc>>
    /\ \E r0 \in {header_do_organize(h, current, NoFault)} :
          \E fault \in (ReadFaults \ {<<"get_height", 0>>}) \cup WriteFaults :
             /\ fault[1] = "write" => r0.st.cand # candidate
             /\ \E r \in {header_do_organize(h, current, fault)} :
                   /\ r # r0
                   /\ Apply(r)
                   /\ last' = Returns("organize", h, current, r)
                   /\ admitted' = Admit(h, r)
                   /\ owed' = (Owes(r.events) /\ ~Settled')

DisorganizeFaults ==
    {<<"get_height", 0>>, <<"get_candidate_chain_state", 0>>}
        \cup {<<"get_block", i>> : i \in 1..NumHeaders} \cup WriteFaults

\* unchecked / unpreconfirmable / unconfirmable (link): do_disorganize runs on
\* the organizer's strand.
Disorganize(link) ==
    LET r == do_disorganize(link, NoFault) IN
    /\ UNCHANGED <<headerInVars, blockInVars>>
    /\ UNCHANGED <<configVars, confirmed, assoc, faults, admitted>>
    /\ Apply(r)
    /\ last' = Returns("disorganize", link, FALSE, r)
    /\ owed' = (Owes(r.events) /\ ~Settled')

\* do_disorganize when one of its archive calls fails.
DisorganizeFault(link) ==
    /\ faults < MaxFaults
    /\ ~closed
    /\ is_candidate_block(link)
    /\ faults' = faults + 1
    /\ UNCHANGED <<headerInVars, blockInVars>>
    /\ UNCHANGED <<configVars, confirmed, assoc, admitted>>
    /\ LET r0 == do_disorganize(link, NoFault) IN
       \E fault \in DisorganizeFaults :
          LET r == do_disorganize(link, fault) IN
          /\ r # r0
          /\ Apply(r)
          /\ last' = Returns("disorganize", link, FALSE, r)
          /\ owed' = (Owes(r.events) /\ ~Settled')

\* ---------------------------------------------------------------------------
\* Actions of chaser_check, on its strand.
\* ---------------------------------------------------------------------------
organizerState == <<archived, candidate, confirmed, assoc, bstate, tree,
                    state_, closed, faults, admitted>>

Handles(op_, arg_, events_) ==
    [op |-> op_, arg |-> arg_, current |-> FALSE, code |-> "success",
     height |-> 0, events |-> events_, map |-> <<>>, put |-> <<>>]

\* The chunk put by the call that ran immediately before, if that was a
\* put_hashes.
PutOps == {"do_put_hashes", "stopping", "do_split"}

JustPut == IF last.op \in PutOps THEN <<last.map>> ELSE <<>>

\* A call that hands a chunk over: map is the chunk received (put_hashes) or
\* returned (get_hashes), put the chunk of the put_hashes just before.
Hands(op_, map, put_, events_) ==
    [op |-> op_, arg |-> Len(map), current |-> FALSE, code |-> "success",
     height |-> 0, events |-> events_, map |-> map, put |-> put_]

\* header(branch_point) event: do_add_headers.
AddHeaders ==
    /\ check_strand # <<>>
    /\ Head(check_strand).tag = "header"
    /\ LET r == do_add_headers(Head(check_strand).value) IN
       /\ UNCHANGED <<headerInVars, blockInVars>>
       /\ UNCHANGED <<configVars, organizerState, blocks, taken, map_,
                      preconfirmVars, preconfirm_strand>>
       /\ check_strand' = Tail(check_strand)
       /\ channel_strand' = Delivered(r.events)
       /\ maps_' = r.maps
       /\ last' = Handles("do_add_headers", Head(check_strand).value, r.events)
       /\ owed' = (Owes(r.events) /\ ~Settled')

\* disorganized(top) event: do_purge_headers.
PurgeHeaders ==
    /\ check_strand # <<>>
    /\ Head(check_strand).tag = "disorganized"
    /\ LET r == do_purge_headers(Head(check_strand).value) IN
       /\ UNCHANGED <<headerInVars, blockInVars>>
       /\ UNCHANGED <<configVars, organizerState, blocks, taken, map_,
                      preconfirmVars, preconfirm_strand>>
       /\ check_strand' = Tail(check_strand)
       /\ channel_strand' = Delivered(r.events)
       /\ maps_' = r.maps
       /\ last' = Handles("do_purge_headers", Head(check_strand).value,
                          r.events)
       /\ owed' = (Owes(r.events) /\ ~Settled')

\* get_hashes(handler): the caller receives the front chunk.  A block-in
\* channel (start, do_handle_get_hashes) requests the blocks of the chunk from
\* its peer.
GetHashes ==
    /\ "check" \in subscribers
    /\ LET r == do_get_hashes IN
       /\ UNCHANGED <<headerInVars, blockInVars>>
       /\ UNCHANGED <<configVars, organizerState, blocks, preconfirmVars,
                      strandVars, map_>>
       /\ maps_' = r.table
       /\ taken' = IF r.map = <<>> THEN taken ELSE taken \cup {r.map}
       /\ last' = Hands("do_get_hashes", r.map, JustPut, <<>>)
       /\ owed' = (Owes(<<>>) /\ ~Settled')

\* put_hashes(map, handler): a caller restores a chunk it received, or an
\* empty map when it holds none.
PutHashes(map) ==
    /\ "check" \in subscribers
    /\ map \in taken \cup {<<>>}
    /\ LET r == do_put_hashes(map) IN
       /\ UNCHANGED <<headerInVars, blockInVars>>
       /\ UNCHANGED <<configVars, organizerState, blocks, preconfirmVars,
                      check_strand, preconfirm_strand, map_>>
       /\ channel_strand' = Delivered(r.events)
       /\ maps_' = r.maps
       /\ taken' = taken \ {map}
       /\ last' = Hands("do_put_hashes", map, <<>>, r.events)
       /\ owed' = (Owes(r.events) /\ ~Settled')

\* chase::stop reaches chaser_header: do_handle_event clears the tree.
HeaderStop ==
    /\ ~is_block
    /\ tree' = <<>>
    /\ last' = Handles("do_handle_event", 0, <<>>)
    /\ UNCHANGED <<headerInVars, blockInVars>>
    /\ UNCHANGED <<configVars, archived, candidate, confirmed, assoc, bstate,
                   state_, closed, faults, admitted, blocks, checkVars,
                   preconfirmVars, strandVars, owed>>

\* chase::stop reaches chaser_organize: handle_event breaks out of its switch.
HandleStop ==
    /\ last' = Handles("handle_event", 0, <<>>)
    /\ UNCHANGED <<headerInVars, blockInVars>>
    /\ UNCHANGED <<configVars, organizerState, blocks, checkVars,
                   preconfirmVars, strandVars, owed>>

\* ---------------------------------------------------------------------------
\* protocol_header_in_31800: a channel, on its strand.
\* ---------------------------------------------------------------------------
MaxBatch == 2

\* The headers messages a peer can send: no header twice.
Messages ==
    {m \in UNION {[1..n -> 1..NumHeaders] : n \in 1..MaxBatch} :
        \A i, j \in DOMAIN m : m[i] = m[j] => i = j}

\* stop(network::error::protocol_violation); return false.
Violation(state, handed) ==
    [state |-> state, handed |-> handed, code |-> "protocol_violation"]

\* Store each header, drop channel if invalid.
RECURSIVE receive_loop(_, _, _)
receive_loop(state, headers, handed) ==
    IF headers = <<>>
    THEN [state |-> state, handed |-> handed, code |-> "success"]
    ELSE LET h == Head(headers) IN
    IF previous_block_hash(h) # state.hash THEN Violation(state, handed)
    ELSE IF validate(h) # "success" THEN Violation(state, handed)
    ELSE IF is_conflict(h, state.height + 1) THEN Violation(state, handed)
    ELSE receive_loop(chain_state(state, h), Tail(headers), Append(handed, h))

\* Every header of the message is handed to organize.
handle_receive_headers_unlinked(state, headers) ==
    [state |-> state, handed |-> headers, code |-> "success"]

\* handle_receive_headers: the state the channel is left with, the headers
\* handed to organize in order, and the code the channel stops with.
handle_receive_headers(state, headers) ==
    receive_loop(state, headers, <<>>)

\* headers message from the peer: handle_receive_headers.  Each organize
\* call is posted to the organizer's strand.  The peer sends the next message
\* after the organizer has run the calls of the one before.
ReceiveHeaders(headers) ==
    /\ ~header_stopped
    /\ posted = <<>>
    /\ LET r == handle_receive_headers(header_state_, headers) IN
       /\ header_state_' = r.state
       /\ header_stopped' = (r.code # "success")
       /\ posted' = posted \o r.handed
       /\ received' = [headers |-> headers, handed |-> r.handed,
                       code |-> r.code]
       /\ last' = [Handles("handle_receive_headers", Len(headers), <<>>)
                     EXCEPT !.code = r.code]
    /\ UNCHANGED <<configVars, organizerState, blocks, checkVars,
                   preconfirmVars, strandVars, owed, blockInVars>>

\* A stopped channel is replaced by a new one: start.
StartHeaderIn ==
    /\ header_stopped
    /\ header_state_' = get_candidate_chain_state(get_top_candidate)
    /\ header_stopped' = FALSE
    /\ last' = Handles("header_in_start", 0, <<>>)
    /\ UNCHANGED <<configVars, organizerState, blocks, checkVars,
                   preconfirmVars, strandVars, owed, posted, received,
                   blockInVars>>

MaxPosted == 2

\* organize(entry, handler): the call is posted to the organizer's strand.
\* No entry is posted while a call for it is waiting.
PostOrganize(h) ==
    /\ Len(posted) < MaxPosted
    /\ h \notin Range(posted)
    /\ posted' = Append(posted, h)
    /\ UNCHANGED <<configVars, organizerState, blocks, checkVars,
                   preconfirmVars, strandVars, owed, last, header_state_,
                   header_stopped, received, blockInVars>>

\* The posted do_organize when one of its archive calls fails.
OrganizePostedFault(current) ==
    /\ posted # <<>>
    /\ faults < MaxFaults
    /\ ~closed
    /\ faults' = faults + 1
    /\ LET h == Head(posted)
           r0 == do_organize(h, current, NoFault)
       IN
       \E fault \in ReadFaults \cup WriteFaults :
          /\ fault[1] = "get_height" => to_header(h) # Terminal
          /\ fault[1] = "write" => r0.st.cand # candidate
          /\ LET r == do_organize(h, current, fault) IN
             /\ r # r0
             /\ Apply(r)
             /\ last' = Returns("organize", h, current, r)
             /\ admitted' = Admit(h, r)
             /\ owed' = (Owes(r.events) /\ ~Settled')
    /\ posted' = Tail(posted)
    /\ UNCHANGED <<configVars, confirmed, assoc, header_state_,
                   header_stopped, received, blockInVars>>

\* The strand runs the call posted last.
OrganizePosted_lifo(current) ==
    /\ posted # <<>>
    /\ \E h \in {posted[Len(posted)]} :
          \E r \in {do_organize(h, current, NoFault)} :
             /\ Apply(r)
             /\ last' = Returns("organize", h, current, r)
             /\ admitted' = Admit(h, r)
             /\ owed' = (Owes(r.events) /\ ~Settled')
    /\ posted' = SubSeq(posted, 1, Len(posted) - 1)
    /\ UNCHANGED <<configVars, confirmed, assoc, faults, header_state_,
                   header_stopped, received, blockInVars>>

\* The organizer's strand runs the organize call posted first.
OrganizePosted(current) ==
    /\ posted # <<>>
    /\ \E h \in {Head(posted)} :
          \E r \in {do_organize(h, current, NoFault)} :
             /\ Apply(r)
             /\ last' = Returns("organize", h, current, r)
             /\ admitted' = Admit(h, r)
             /\ owed' = (Owes(r.events) /\ ~Settled')
    /\ posted' = Tail(posted)
    /\ UNCHANGED <<configVars, confirmed, assoc, faults, header_state_,
                   header_stopped, received, blockInVars>>

\* ---------------------------------------------------------------------------
\* protocol_block_in (legacy): a channel, on its strand.
\* ---------------------------------------------------------------------------
maximum_advertisement == 1

\* The inventory messages a peer can send: no hash twice.
Inventories == Messages

\* create_get_data: the announced blocks that are not archived.
create_get_data(items) == SelectSeq(items, LAMBDA hash : hash \notin assoc)

\* Order reversed for individual erase performance (using pop_back).
to_hashes(getter) == Reverse(getter)

back(hashes) == hashes[Len(hashes)]
pop_back(hashes) == SubSeq(hashes, 1, Len(hashes) - 1)

\* handle_receive_inventory: track this inventory until exhausted.
handle_receive_inventory(items) ==
    LET getter == create_get_data(items) IN
    IF getter = <<>> THEN tracker
    ELSE [announced |-> Len(getter), last |-> back(getter),
          hashes |-> to_hashes(getter)]

\* Outcomes of handle_receive_block: the tracker and rolling state it leaves,
\* the code the channel is stopped with, and whether the block was archived.
Tracked(track, state, code_, set_link_) ==
    [track |-> track, state |-> state, code |-> code_, stored |-> set_link_]

\* An orphan stops the channel whatever the size of the inventory.
orphan_block_strict(track, state) ==
    Tracked(NoTrack, state, "protocol_violation", FALSE)

\* Out of order (orphan): treated as invalid inventory when more blocks were
\* announced than an announcement holds, else the subscription is released.
orphan_block(track, state) ==
    IF track.announced > maximum_advertisement
    THEN Tracked(NoTrack, state, "protocol_violation", FALSE)
    ELSE Tracked(NoTrack, state, "success", FALSE)

\* protocol_block_in::handle_receive_block
handle_receive_block(track, state, hash) ==
    IF track.hashes = <<>> THEN Tracked(NoTrack, state, "success", FALSE)
    ELSE IF back(track.hashes) # hash
    THEN Tracked(track, state, "success", FALSE)
    ELSE IF previous_block_hash(hash) # state.hash
    THEN orphan_block(track, state)
    ELSE IF validate(hash) # "success"
    THEN Tracked(NoTrack, state, "protocol_violation", FALSE)
    ELSE Tracked([track EXCEPT !.hashes = pop_back(track.hashes)],
                 chain_state(state, hash), "success", TRUE)

\* inv message from the peer: handle_receive_inventory.  The peer announces
\* again after the subscription for its last inventory was released.
ReceiveInventory(items) ==
    /\ ~block_stopped
    /\ tracker.hashes = <<>>
    /\ tracker' = handle_receive_inventory(items)
    /\ last' = Handles("handle_receive_inventory", Len(items), <<>>)
    /\ UNCHANGED <<configVars, organizerState, blocks, checkVars,
                   preconfirmVars, strandVars, owed, headerInVars,
                   block_state_, block_stopped>>

\* block message from the peer: handle_receive_block of the subscribed
\* tracker.
ReceiveTracked(hash) ==
    /\ ~block_stopped
    /\ tracker.hashes # <<>>
    /\ LET r == handle_receive_block(tracker, block_state_, hash) IN
       /\ tracker' = r.track
       /\ block_state_' = r.state
       /\ block_stopped' = (r.code # "success")
       /\ archived' = IF r.stored THEN archived \cup {hash} ELSE archived
       /\ assoc' = IF r.stored THEN assoc \cup {hash} ELSE assoc
       /\ last' = [Handles("protocol_block_in::handle_receive_block", hash,
                           <<>>) EXCEPT !.code = r.code]
    /\ UNCHANGED <<configVars, candidate, confirmed, bstate, tree, state_,
                   closed, faults, admitted, blocks, checkVars,
                   preconfirmVars, strandVars, owed, headerInVars>>

\* A stopped channel is replaced by a new one: start.
StartBlockIn ==
    /\ block_stopped
    /\ block_state_' = candidate_chain_state(confirmed, get_top_confirmed)
    /\ block_stopped' = FALSE
    /\ tracker' = NoTrack
    /\ last' = Handles("protocol_block_in::start", 0, <<>>)
    /\ UNCHANGED <<configVars, organizerState, blocks, checkVars,
                   preconfirmVars, strandVars, owed, headerInVars>>

\* ---------------------------------------------------------------------------
\* protocol_block_in_31800: a channel, on its strand.  A channel that stops
\* is replaced by a new one, constructed with an empty map_.
\* ---------------------------------------------------------------------------
\* stopping(ec): put_hashes(map_).
Stopped(code_) ==
    LET r == do_put_hashes(map_) IN
    /\ UNCHANGED <<headerInVars, blockInVars>>
    /\ UNCHANGED <<configVars, organizerState, blocks, preconfirmVars,
                   check_strand, preconfirm_strand>>
    /\ channel_strand' = Delivered(r.events)
    /\ maps_' = r.maps
    /\ taken' = taken \ {map_}
    /\ map_' = <<>>
    /\ last' = [Hands("stopping", map_, <<>>, r.events) EXCEPT !.code = code_]
    /\ owed' = (Owes(r.events) /\ ~Settled')

\* The channel stops: its peer disconnects, a timer expires, the node stops.
Stopping ==
    /\ "check" \in subscribers
    /\ Stopped("channel_stopped")

erase(map, link) == SelectSeq(map, LAMBDA e : e # link)

\* A channel whose map_ is empty requests one chunk and records it as map_.
RecordHashes ==
    /\ "check" \in subscribers
    /\ map_ = <<>>
    /\ LET r == do_get_hashes IN
       /\ UNCHANGED <<headerInVars, blockInVars>>
       /\ UNCHANGED <<configVars, organizerState, blocks, preconfirmVars,
                      strandVars>>
       /\ maps_' = r.table
       /\ taken' = IF r.map = <<>> THEN taken ELSE taken \cup {r.map}
       /\ map_' = r.map
       /\ last' = Hands("handle_get_hashes", r.map, JustPut, <<>>)
       /\ owed' = (Owes(<<>>) /\ ~Settled')

\* The ways to halve a map: the lower or the upper part is given back, and
\* of an odd number of hashes the smaller or the greater part.
Halves(map) ==
    {[back |-> SubSeq(map, 1, k), kept |-> SubSeq(map, k + 1, Len(map))] :
        k \in {Len(map) \div 2, Len(map) - Len(map) \div 2}}
    \cup
    {[back |-> SubSeq(map, k + 1, Len(map)), kept |-> SubSeq(map, 1, k)] :
        k \in {Len(map) \div 2, Len(map) - Len(map) \div 2}}

\* split(channel) addressed to this channel: do_split gives one half of map_
\* back with put_hashes and keeps the other.
Split ==
    /\ "check" \in subscribers
    /\ map_ # <<>>
    /\ \E half \in Halves(map_) :
          LET r == do_put_hashes(half.back) IN
          /\ UNCHANGED <<headerInVars, blockInVars>>
          /\ UNCHANGED <<configVars, organizerState, blocks, preconfirmVars,
                         check_strand, preconfirm_strand, taken>>
          /\ channel_strand' = Delivered(r.events)
          /\ maps_' = r.maps
          /\ map_' = half.kept
          /\ last' = Hands("do_split", half.back, <<>>, r.events)
          /\ owed' = (Owes(r.events) /\ ~Settled')

\* handle_receive_block: a block that is not in map_ stops the channel; one
\* that is in map_ is archived and erased from map_, and when map_ is empty
\* the next chunk is requested.
ReceiveBlock(link, block) ==
    /\ "check" \in subscribers
    /\ ~closed
    /\ link \in archived \ assoc
    /\ IF link \notin Range(map_) THEN Stopped("unknown")
       ELSE LET r == IF erase(map_, link) = <<>> THEN do_get_hashes
                     ELSE [map |-> <<>>, table |-> maps_]
            IN
            /\ UNCHANGED <<headerInVars, blockInVars>>
            /\ UNCHANGED <<configVars, archived, candidate, confirmed,
                           bstate, tree, state_, closed, faults, admitted,
                           preconfirmVars, strandVars>>
            /\ assoc' = assoc \cup {link}
            /\ blocks' = [blocks EXCEPT ![link] = block]
            /\ map_' = erase(map_, link)
            /\ maps_' = r.table
            /\ taken' = IF r.map = <<>> THEN taken ELSE taken \cup {r.map}
            /\ last' = Hands("handle_receive_block", r.map, <<>>, <<>>)
            /\ owed' = (Owes(<<>>) /\ ~Settled')

\* is_idle(): the channel holds no hashes.
is_idle == map_ = <<>>

\* handle_event, chase::purge: do_purge drops map_ entirely and returns
\* nothing to the pool.
HandlePurge ==
    /\ channel_strand # <<>>
    /\ Head(channel_strand).tag = "purge"
    /\ UNCHANGED <<headerInVars, blockInVars>>
    /\ UNCHANGED <<configVars, organizerState, blocks, preconfirmVars,
                   check_strand, preconfirm_strand, maps_>>
    /\ channel_strand' = Tail(channel_strand)
    /\ map_' = <<>>
    /\ taken' = taken \ {map_}
    /\ last' = Handles("do_purge", Head(channel_strand).value, <<>>)
    /\ owed' = (Owes(<<>>) /\ ~Settled')

\* handle_event, chase::download: do_get_downloads makes an idle channel
\* call get_hashes and record the chunk it receives as map_; a channel that
\* holds hashes goes on with them.  do_handle_get_hashes sends get_data for
\* the chunk unless that is empty.
HandleDownload ==
    /\ channel_strand # <<>>
    /\ Head(channel_strand).tag = "download"
    /\ LET r == IF is_idle THEN do_get_hashes
                ELSE [map |-> map_, table |-> maps_]
       IN
       /\ UNCHANGED <<headerInVars, blockInVars>>
       /\ UNCHANGED <<configVars, organizerState, blocks, preconfirmVars,
                      check_strand, preconfirm_strand>>
       /\ channel_strand' = Tail(channel_strand)
       /\ maps_' = r.table
       /\ map_' = r.map
       /\ taken' = IF r.map = <<>> THEN taken ELSE taken \cup {r.map}
       /\ last' = Hands("do_get_downloads", r.map, <<>>, <<>>)
       /\ owed' = (Owes(<<>>) /\ ~Settled')

\* ---------------------------------------------------------------------------
\* Blocks arriving from peers.
\* ---------------------------------------------------------------------------
Blocks == [malleable : BOOLEAN, valid : BOOLEAN]

\* handle_receive_block: a requested block passes check and is archived.
StoreBlock(link, block) ==
    /\ ~closed
    /\ link \in archived \ assoc
    /\ UNCHANGED <<headerInVars, blockInVars>>
    /\ UNCHANGED <<configVars, archived, candidate, confirmed, bstate, tree,
                   state_, closed, faults, admitted, checkVars,
                   preconfirmVars, strandVars, owed, last>>
    /\ assoc' = assoc \cup {link}
    /\ blocks' = [blocks EXCEPT ![link] = block]

\* A distinct block of the same header replaces a stored malleable block that
\* has no block state.
ReplaceBlock(link, block) ==
    /\ ~closed
    /\ link \in assoc
    /\ is_malleable(link)
    /\ bstate[link] = "unknown"
    /\ block # blocks[link]
    /\ UNCHANGED <<headerInVars, blockInVars>>
    /\ UNCHANGED <<configVars, organizerState, checkVars, preconfirmVars,
                   strandVars, owed, last>>
    /\ blocks' = [blocks EXCEPT ![link] = block]

\* ---------------------------------------------------------------------------
\* Actions of chaser_preconfirm, on its strand.
\* ---------------------------------------------------------------------------
PreconfirmFaults ==
    {<<call, height>> :
        call \in {"get_block", "set_block_unconfirmable",
                  "set_block_preconfirmable"},
        height \in 1..NumHeaders}

Malleated(events_) ==
    {events_[i].value : i \in {j \in DOMAIN events_ :
                                  events_[j].tag = "malleated"}}

ApplyBump(op_, arg_, b) ==
    /\ UNCHANGED <<headerInVars, blockInVars, channel_strand>>
    /\ UNCHANGED <<configVars, archived, candidate, confirmed, assoc, tree,
                   state_, admitted, blocks, checkVars, check_strand, owed>>
    /\ validated_' = b.validated
    /\ bstate' = b.bst
    /\ closed' = (closed \/ b.fault)
    /\ malleated' = malleated \cup Malleated(b.events)
    /\ last' = IF b = Bumped(validated_, bstate, <<>>, FALSE) THEN last
               ELSE [op |-> op_, arg |-> arg_, current |-> FALSE,
                     code |-> IF b.fault THEN "store_integrity" ELSE "success",
                     height |-> b.validated, events |-> b.events,
                     map |-> <<>>, put |-> <<>>]

\* start / bump event: do_bump.
Bump ==
    /\ "preconfirm" \in subscribers
    /\ ApplyBump("do_bump", 0, do_bump(validated_, NoFault))
    /\ UNCHANGED <<faults, preconfirm_strand, arrived>>

\* checked(height) event: do_checked.
Checked(height) ==
    /\ "preconfirm" \in subscribers
    /\ ApplyBump("do_checked", height, do_checked(validated_, height, NoFault))
    /\ UNCHANGED <<faults, preconfirm_strand, arrived>>

\* regressed(branch_point) event: do_regressed.
Regressed(branch_point) ==
    /\ "preconfirm" \in subscribers
    /\ ApplyBump("do_regressed", branch_point,
                 do_regressed(branch_point, NoFault))
    /\ UNCHANGED <<faults, preconfirm_strand, arrived>>

\* disorganized(top) event: do_disorganized.
Disorganized ==
    /\ preconfirm_strand # <<>>
    /\ Head(preconfirm_strand).tag = "disorganized"
    /\ ApplyBump("do_disorganized", Head(preconfirm_strand).value,
                 do_disorganized(Head(preconfirm_strand).value, NoFault))
    /\ preconfirm_strand' = Tail(preconfirm_strand)
    /\ UNCHANGED <<faults, arrived>>

\* do_bump when one of its archive calls fails.
BumpFault ==
    /\ "preconfirm" \in subscribers
    /\ faults < MaxFaults
    /\ ~closed
    /\ \E fault \in PreconfirmFaults :
          /\ do_bump(validated_, fault) # do_bump(validated_, NoFault)
          /\ ApplyBump("do_bump", 0, do_bump(validated_, fault))
    /\ faults' = faults + 1
    /\ UNCHANGED <<preconfirm_strand, arrived>>

\* A requested block passes check and is archived, and checked(height) is
\* notified.  Channels run on strands of their own, so the events reach
\* preconfirm's strand in any order.
StoreChecked(link, block) ==
    /\ ~closed
    /\ link \in archived \ assoc
    /\ UNCHANGED <<headerInVars, blockInVars>>
    /\ UNCHANGED <<configVars, archived, candidate, confirmed, bstate, tree,
                   state_, closed, faults, admitted, checkVars, validated_,
                   malleated, strandVars, owed, last>>
    /\ assoc' = assoc \cup {link}
    /\ blocks' = [blocks EXCEPT ![link] = block]
    /\ arrived' = arrived \cup {get_height(link)}

\* checked(height) event taken from preconfirm's strand: do_checked.
CheckedArrived(height) ==
    /\ "preconfirm" \in subscribers
    /\ height \in arrived
    /\ ApplyBump("do_checked", height, do_checked(validated_, height, NoFault))
    /\ arrived' = arrived \ {height}
    /\ UNCHANGED <<faults, preconfirm_strand>>

Next ==
    \/ \E h \in 1..NumHeaders, current \in BOOLEAN : Organize(h, current)
    \/ \E h \in 1..NumHeaders, current \in BOOLEAN : OrganizeFault(h, current)
    \/ \E link \in Hashes : Disorganize(link)
    \/ \E link \in Hashes : DisorganizeFault(link)

Spec == Init /\ [][Next]_vars

\* Admissions only: the organizer receives organize calls and no event.
NextOrganize ==
    \/ \E h \in 1..NumHeaders, current \in BOOLEAN : Organize(h, current)
    \/ \E h \in 1..NumHeaders, current \in BOOLEAN : OrganizeFault(h, current)

SpecOrganize == Init /\ [][NextOrganize]_vars

\* The header organizer of chaser_header.cpp, with archive failures.
NextHeaderOrganize ==
    \/ \E h \in 1..NumHeaders, current \in BOOLEAN :
          HeaderOrganize(h, current)
    \/ \E h \in 1..NumHeaders, current \in BOOLEAN :
          HeaderOrganizeFault(h, current)

SpecHeaderOrganize == Init /\ [][NextHeaderOrganize]_vars

\* An organizer of the chaser_organize template and the global stop event.
NextStop ==
    \/ \E h \in 1..NumHeaders, current \in BOOLEAN : Organize(h, current)
    \/ HandleStop

SpecStop == Init /\ [][NextStop]_vars

\* The header organizer of chaser_header.cpp and the global stop event.
NextHeaderStop ==
    \/ \E h \in 1..NumHeaders, current \in BOOLEAN :
          HeaderOrganize(h, current)
    \/ HeaderStop

SpecHeaderStop == Init /\ [][NextHeaderStop]_vars

\* A checkpoint above genesis: the first header, or the last one announced.
CheckpointConfigs ==
    {[DefaultConfig EXCEPT !.checkpoint = c] : c \in {1, NumHeaders}}

InitCheckpoint == InitWith(Universes, {}, CheckpointConfigs, MaxInitHeight)

\* Admissions in which every archive call succeeds.
NextCheckpoint ==
    \E h \in 1..NumHeaders, current \in BOOLEAN : Organize(h, current)

SpecCheckpoint == InitCheckpoint /\ [][NextCheckpoint]_vars

\* The parent is neither the cached top, nor in the tree, nor in the archive.
ParentUnknown(h) ==
    /\ state_.hash # previous_block_hash(h)
    /\ previous_block_hash(h) \notin DOMAIN tree
    /\ to_header(previous_block_hash(h)) = Terminal

\* organize entered by a caller that keeps no rolling state, with an entry
\* that arrives before its parent.
OrganizeOrphan(h, current) ==
    /\ ParentUnknown(h)
    /\ Organize(h, current)

\* A header-in channel and the organizer.
InitHeaderIn ==
    InitWith({u \in Universes : \A h \in DOMAIN u : u[h].proof = MaxProof},
             {}, {[DefaultConfig EXCEPT !.checkpoint = NumHeaders]},
             MaxInitHeight)

NextHeaderIn ==
    \/ \E headers \in Messages : ReceiveHeaders(headers)
    \/ \E current \in BOOLEAN : OrganizePosted(current)
    \/ StartHeaderIn
    \/ \E h \in 1..NumHeaders, current \in BOOLEAN :
          OrganizeOrphan(h, current)

SpecHeaderIn == InitHeaderIn /\ [][NextHeaderIn]_vars

\* A legacy block-in channel: blocks are archived as they arrive.
NextBlockIn ==
    \/ \E items \in Inventories : ReceiveInventory(items)
    \/ \E hash \in 1..NumHeaders : ReceiveTracked(hash)
    \/ StartBlockIn

SpecBlockIn == InitHeaderIn /\ [][NextBlockIn]_vars

\* A header-in channel and the other channels that call organize.
NextChannels ==
    \/ \E headers \in Messages : ReceiveHeaders(headers)
    \/ \E h \in 1..NumHeaders : PostOrganize(h)
    \/ OrganizePosted(TRUE)
    \/ StartHeaderIn

\* The peers serve one chain of headers.
InitChannels ==
    InitWith({u \in Universes : \A h \in DOMAIN u :
                 u[h].proof = MaxProof /\ u[h].prev = h - 1},
             {}, {[DefaultConfig EXCEPT !.checkpoint = NumHeaders]},
             MaxInitHeight)

SpecChannels == InitChannels /\ [][NextChannels]_vars

\* Headers of the greatest proof on one chain, the last of which may fork off
\* it and may fail validation.
FaultyUniverses ==
    {[h \in 1..NumHeaders |->
         [prev |-> pv[h], proof |-> MaxProof, valid |-> h # bad]] :
     pv \in {q \in Shapes : \A h \in 1..(NumHeaders - 1) : q[h] = h - 1},
     bad \in {0, NumHeaders}}

\* Callers post organize calls; the organizer's strand runs them in order.
InitStrand ==
    InitWith(FaultyUniverses, {},
             {[DefaultConfig EXCEPT !.checkpoint = NumHeaders]},
             MaxInitHeight)

NextStrand ==
    \/ \E h \in 1..NumHeaders : PostOrganize(h)
    \/ \E current \in BOOLEAN : OrganizePosted(current)
    \/ \E current \in BOOLEAN : OrganizePostedFault(current)

\* The strand takes the call posted first off its queue: under NextStrand
\* such a step is OrganizePosted or OrganizePostedFault, and one of them is
\* enabled whenever the queue is not empty.
RunPosted == posted # <<>> /\ posted' = Tail(posted)

\* A strand runs the work posted to it.
SpecStrand ==
    /\ InitStrand
    /\ [][NextStrand]_vars
    /\ WF_posted(RunPosted)

\* Admissions and disorganizations of headers of which one may fail
\* validation, under a checkpoint, with archive failures.
NextFaulty ==
    \/ \E h \in 1..NumHeaders, current \in BOOLEAN : Organize(h, current)
    \/ \E h \in 1..NumHeaders, current \in BOOLEAN : OrganizeFault(h, current)
    \/ \E link \in Hashes : Disorganize(link)
    \/ \E link \in Hashes : DisorganizeFault(link)

SpecFaulty == InitStrand /\ [][NextFaulty]_vars

\* The organizer and the work pool: chaser_check is subscribed.  The confirmed
\* chain may be one block longer, so that a stronger branch can leave it
\* below its top.
InitCheck == InitWith(Universes, {"check"}, {DefaultConfig}, MaxInitHeight + 1)

NextCheck ==
    \/ \E h \in 1..NumHeaders, current \in BOOLEAN : Organize(h, current)
    \/ \E link \in Hashes : Disorganize(link)
    \/ AddHeaders
    \/ PurgeHeaders
    \/ GetHashes
    \/ \E map \in taken : PutHashes(map)

SpecCheck == InitCheck /\ [][NextCheck]_vars

\* The organizer and the validation advance loop: chaser_preconfirm is
\* subscribed, with and without a block under bypass.
BypassConfigs == {DefaultConfig, [DefaultConfig EXCEPT !.bypass = 1]}

\* Every header carries the greatest proof, so that each is stored when it is
\* announced.
HeavyUniverses == {u \in Universes : \A h \in DOMAIN u : u[h].proof = MaxProof}

\* The link is a candidate that do_bump has declared unpreconfirmable.
Unpreconfirmable(link) ==
    is_candidate_block(link) /\ bstate[link] = "unconfirmable"

\* Peers supply at most one malleable or invalid block at a time.
OneBad(block) ==
    block = GoodBlock \/ \A link \in assoc : blocks[link] = GoodBlock

InitPreconfirm ==
    InitWith(HeavyUniverses, {"preconfirm"}, BypassConfigs, MaxInitHeight)

NextPreconfirm ==
    \/ \E h \in 1..NumHeaders : h \notin archived /\ Organize(h, TRUE)
    \/ \E link \in Hashes : Unpreconfirmable(link) /\ Disorganize(link)
    \/ \E link \in Hashes, block \in Blocks :
          OneBad(block) /\ StoreBlock(link, block)
    \/ \E link \in Hashes : ReplaceBlock(link, GoodBlock)
    \/ Bump
    \/ \E height \in 0..NumHeaders : Checked(height)
    \/ \E branch_point \in 0..NumHeaders : Regressed(branch_point)
    \/ Disorganized
    \/ BumpFault

SpecPreconfirm == InitPreconfirm /\ [][NextPreconfirm]_vars

\* The header organizer of chaser_header.cpp beside the validation advance
\* loop, which marks a candidate whose block fails validation.
NextHeaderMarked ==
    \/ \E h \in 1..NumHeaders : HeaderOrganize(h, TRUE)
    \/ \E link \in Hashes, block \in Blocks :
          OneBad(block) /\ StoreBlock(link, block)
    \/ Bump

SpecHeaderMarked == InitPreconfirm /\ [][NextHeaderMarked]_vars

\* The work pool and the channels that take chunks from it and put them
\* back: every header is stored when it is announced.
InitPool == InitWith(HeavyUniverses, {"check"}, {DefaultConfig}, MaxInitHeight)

NextPool ==
    \/ \E h \in 1..NumHeaders : h \notin archived /\ Organize(h, TRUE)
    \/ \E link \in Hashes : is_candidate_block(link) /\ Disorganize(link)
    \/ AddHeaders
    \/ PurgeHeaders
    \/ GetHashes
    \/ \E map \in taken \cup {<<>>} : PutHashes(map)

SpecPool == InitPool /\ [][NextPool]_vars

\* The work pool and a block-in channel: the channel takes chunks, receives
\* the blocks its peer sends, and stops.
NextChannel ==
    \/ \E h \in 1..NumHeaders : h \notin archived /\ Organize(h, TRUE)
    \/ AddHeaders
    \/ GetHashes
    \/ \E link \in Hashes : ReceiveBlock(link, GoodBlock)
    \/ Stopping

SpecChannel == InitPool /\ [][NextChannel]_vars

\* The work pool, a channel that records the chunk it takes and is told to
\* split, and other channels that take chunks.  Headers form one chain.
InitSplit ==
    InitWith({u \in HeavyUniverses : \A h \in DOMAIN u : u[h].prev = h - 1},
             {"check"}, {DefaultConfig}, MaxInitHeight)

NextSplit ==
    \/ \E h \in 1..NumHeaders : h \notin archived /\ Organize(h, TRUE)
    \/ AddHeaders
    \/ RecordHashes
    \/ Split
    \/ GetHashes

SpecSplit == InitSplit /\ [][NextSplit]_vars

\* The work pool and a block-in channel subscribed to its events: the
\* channel's strand holds at most MaxPosted events that it has not handled.
InitPurge ==
    InitWith(HeavyUniverses, {"check", "channel"}, {DefaultConfig},
             MaxInitHeight)

Room == Len(channel_strand) < MaxPosted

NextPurge ==
    \/ \E h \in 1..NumHeaders : h \notin archived /\ Organize(h, TRUE)
    \/ \E link \in Hashes : is_candidate_block(link) /\ Disorganize(link)
    \/ Room /\ AddHeaders
    \/ Room /\ PurgeHeaders
    \/ Room /\ Stopping
    \/ HandlePurge
    \/ HandleDownload

SpecPurge == InitPurge /\ [][NextPurge]_vars

\* The work pool, a block-in channel subscribed to its events, and other
\* channels that take chunks and put them back.  Headers form one chain.
\* The channel's strand runs the events posted to it.
InitIdle ==
    InitWith({u \in HeavyUniverses : \A h \in DOMAIN u : u[h].prev = h - 1},
             {"check", "channel"}, {DefaultConfig}, MaxInitHeight)

NextIdle ==
    \/ \E h \in 1..NumHeaders : h \notin archived /\ Organize(h, TRUE)
    \/ Room /\ AddHeaders
    \/ RecordHashes
    \/ Room /\ Stopping
    \/ GetHashes
    \/ \E map \in taken \ {map_} : Room /\ PutHashes(map)
    \/ HandleDownload

\* The strand takes the event posted first off its queue: under NextIdle
\* such a step is HandleDownload, enabled whenever the queue is not empty.
RunChannel == channel_strand # <<>> /\ channel_strand' = Tail(channel_strand)

SpecIdle ==
    /\ InitIdle
    /\ [][NextIdle]_vars
    /\ WF_channel_strand(RunChannel)

\* Block arrival: headers form one chain, blocks arrive in any order, and
\* preconfirm is driven by checked events alone.  Each posted event is
\* eventually handled (a strand runs the work posted to it).
LinearUniverses ==
    {u \in HeavyUniverses : \A h \in DOMAIN u : u[h].prev = h - 1}

InitArrival ==
    InitWith(LinearUniverses, {"preconfirm"}, BypassConfigs, MaxInitHeight)

NextArrival ==
    \/ \E h \in 1..NumHeaders : h \notin archived /\ Organize(h, TRUE)
    \/ \E link \in Hashes, block \in Blocks :
          OneBad(block) /\ StoreChecked(link, block)
    \/ \E height \in 0..NumHeaders : CheckedArrived(height)

SpecArrival ==
    /\ InitArrival
    /\ [][NextArrival]_vars
    /\ \A height \in 0..NumHeaders : WF_vars(CheckedArrived(height))

\* The preconfirm chaser's handlers over a single chain of headers.
SpecDrain == InitArrival /\ [][NextPreconfirm]_vars

\* ---------------------------------------------------------------------------
\* Properties.
\* ---------------------------------------------------------------------------
\* The chain of headers from genesis to h, and where it leaves the candidate
\* chain.
Ancestry(h) == PathIn(hdr, h)

ForkHeight(h) ==
    LET on == {i \in 0..(Len(Ancestry(h)) - 1) : Ancestry(h)[i + 1] = to_candidate(i)}
    IN CHOOSE i \in on : \A j \in on : j <= i

\* Work of h and its ancestors above the candidate chain.
IncomingWork(h) ==
    Sum([i \in DOMAIN Ancestry(h) |-> proof(Ancestry(h)[i])],
        ForkHeight(h) + 2, Len(Ancestry(h)))

\* Work of the candidates above the given height.
CandidateWork(height) ==
    Sum([i \in DOMAIN candidate |-> proof(candidate[i])],
        height + 2, Len(candidate))

\* The call passes the duplicate, orphan, checkpoint and validation steps.
Admissible(h) ==
    /\ ~closed
    /\ h \notin DOMAIN tree
    /\ h \notin archived
    /\ get_chain_state(previous_block_hash(h)) # NoState
    /\ ~is_conflict(h, get_height(h))
    /\ hdr[h].valid

archiveVars == <<archived, candidate, confirmed, assoc, bstate>>
organizerVars == <<tree, state_, closed>>

\* C1: after every organize call, whatever its outcome, the candidate chain
\* starts at genesis and each candidate's parent is the candidate one height
\* below, so it covers every height from 0 through top_candidate.
C1_CandidateContiguous ==
    /\ Len(candidate) >= 1
    /\ candidate[1] = 0
    /\ \A i \in 2..Len(candidate) :
          /\ previous_block_hash(candidate[i]) = candidate[i - 1]
          /\ get_height(candidate[i]) = i - 1
          /\ candidate[i] \in archived

\* A reorganization has popped a candidate and the chain was extended after.
C1_Witness ==
    /\ last.op = "organize"
    /\ last.code = "success"
    /\ archived \ Range(candidate) # {}
    /\ Len(candidate) >= 3
    /\ candidate[Len(candidate)] = last.arg

\* C2: organize changes the candidate chain only when the incoming branch has
\* strictly more work than the candidates above the branch point; with equal
\* work the chain is unchanged, the entry is cached and the handler succeeds.
C2_StrictlyGreaterWork ==
    [][last'.op = "organize" =>
        /\ candidate' # candidate =>
              IncomingWork(last'.arg) > CandidateWork(ForkHeight(last'.arg))
        /\ (/\ Admissible(last'.arg)
            /\ faults' = faults
            /\ IncomingWork(last'.arg) = CandidateWork(ForkHeight(last'.arg)))
              => /\ candidate' = candidate
                 /\ last'.arg \in DOMAIN tree'
                 /\ last'.code = "success"]_vars

\* A storable entry of equal work was cached.
C2_Witness ==
    /\ last.op = "organize"
    /\ last.code = "success"
    /\ last.current
    /\ last.arg \in DOMAIN tree
    /\ tree[last.arg].work >= MinimumWork
    /\ IncomingWork(last.arg) = CandidateWork(ForkHeight(last.arg))

\* C3: after a successful strong-branch organize of e the candidate chain is
\* the old chain up to the branch point, then e's ancestors parent to child
\* (archived ones first, then promoted tree entries), then e as top; the
\* handler receives (success, height of e).
C3_ReorganizedChain ==
    [][(last'.op = "organize" /\ last'.code = "success"
            /\ candidate' # candidate) =>
        LET e == last'.arg
            p == Ancestry(e)
            bp == ForkHeight(e)
        IN /\ candidate' = SubSeq(candidate, 1, bp + 1)
                              \o SubSeq(p, bp + 2, Len(p))
           /\ candidate'[Len(candidate')] = e
           /\ Len(candidate') - 1 = get_height(e)
           /\ last'.height = get_height(e)
           /\ \A i \in (bp + 2)..(Len(p) - 1) :
                 /\ p[i] \in archived \/ p[i] \in DOMAIN tree
                 /\ p[i] \in archived'
                 /\ p[i] \notin DOMAIN tree'
                 /\ \A j \in (i + 1)..(Len(p) - 1) :
                       p[i] \in DOMAIN tree => p[j] \in DOMAIN tree]_vars

\* A reorganization pushed at least one ancestor below the new top.
C3_Witness ==
    /\ last.op = "organize"
    /\ last.code = "success"
    /\ last.events # <<>>
    /\ last.events[1].value < last.height - 1
    /\ candidate[Len(candidate)] = last.arg

\* C4: organize of a header already admitted with success returns duplicate
\* and leaves the archive and the tree as the single admission left them.
C4_SecondAdmitDuplicate ==
    [][(last'.op = "organize" /\ last'.arg \in admitted /\ ~closed
            /\ faults' = faults) =>
        /\ last'.code = "duplicate"
        /\ UNCHANGED <<archiveVars, organizerVars>>]_vars

C4_Witness ==
    /\ last.op = "organize"
    /\ last.code = "duplicate"
    /\ last.arg \in admitted

\* C5 (as claimed): every entry admitted with success is in the tree or on the
\* candidate chain.
C5_TreeOrCandidate ==
    ~closed => \A e \in admitted : e \in DOMAIN tree \/ e \in Range(candidate)

\* C5 (amended): every entry admitted with success is in the tree, on the
\* candidate chain, or archived as a header that a reorganization popped.
C5_TreeCandidateOrArchived ==
    ~closed => \A e \in admitted :
        e \in DOMAIN tree \/ e \in Range(candidate) \/ e \in archived

\* An admitted entry was popped by a later reorganization.
C5_Witness ==
    /\ ~closed
    /\ \E e \in admitted :
          e \notin DOMAIN tree /\ e \notin Range(candidate) /\ e \in archived

\* C6: after every completed organize and disorganize, while the organizer is
\* not closed, the cached top state describes the current top candidate.
C6_TopStateIsTopCandidate ==
    ~closed =>
        /\ state_.height = get_top_candidate
        /\ state_.hash = to_candidate(get_top_candidate)

\* C7: a disorganize for a candidate at height h above the fork point that
\* completes marks every former candidate from h + 1 through the old top
\* block_unconfirmable, leaves the candidate chain equal to the confirmed
\* chain, and emits one disorganized(top_confirmed) event.
C7_DisorganizeResetsToConfirmed ==
    [][(last'.op = "disorganize" /\ last'.code = "success") =>
        /\ \A i \in (get_height(last'.arg) + 1)..get_top_candidate :
              bstate'[to_candidate(i)] = "unconfirmable"
        /\ candidate' = confirmed
        /\ Len(candidate') - 1 = get_top_confirmed
        /\ last'.events =
              <<[tag |-> "disorganized", value |-> get_top_confirmed]>>]_vars

\* C8: once a disorganized event is emitted, no download event is emitted
\* until a state is reached in which chaser_check's maps queue is empty and
\* the organizer's top state is the chain state of the top confirmed block.
C8_DisorganizedSettlesBeforeDownload ==
    [][owed => ~Emits(last'.events, "download")]_vars

\* Steps in which a do_bump drain ran from validated_ and returned without a
\* fault.
DrainOps == {"do_bump", "do_checked", "do_regressed"}

DrainStep ==
    /\ last' # last
    /\ last'.op \in DrainOps
    /\ last'.code = "success"
    /\ validated_' >= validated_

Positive == {"preconfirmable", "confirmable"}

\* C9 (as claimed): in every reachable state validated is at most
\* top_candidate and every candidate at or below validated is associated and
\* has block state preconfirmable or confirmable.
C9_ValidatedAssociatedPositive ==
    /\ validated_ <= get_top_candidate
    /\ \A i \in 0..validated_ :
          /\ is_associated(to_candidate(i))
          /\ bstate[to_candidate(i)] \in Positive

\* C9 (amended): every drain that advances validated from v to v' finds v' at
\* most top_candidate and every candidate at heights v + 1 .. v' associated,
\* and leaves each with block state preconfirmable or confirmable unless it is
\* under the bypass height and not malleable.
C9_DrainAdvancesOverAssociated ==
    [][(validated_' > validated_ /\ last'.op # "do_disorganized") =>
        \A i \in (validated_ + 1)..validated_' :
            /\ i <= get_top_candidate
            /\ is_associated(to_candidate(i))
            /\ \/ bstate'[to_candidate(i)] \in Positive
               \/ is_under_bypass(i) /\ ~is_malleable(to_candidate(i))]_vars

\* One drain advanced validated over two candidates, one of them validated in
\* this drain.
C9_Witness ==
    /\ last.op \in DrainOps
    /\ Len(last.events) >= 2
    /\ \A i \in DOMAIN last.events : last.events[i].tag = "preconfirmable"
    /\ validated_ = last.height
    /\ validated_ = get_top_candidate
    /\ bstate[to_candidate(validated_)] = "preconfirmable"

\* Validation of the block fails with a code other than store_integrity.
FailsValidation(link) ==
    \/ bstate[link] = "unconfirmable"
    \/ bstate[link] = "unknown" /\ ~blocks[link].valid

C11_UnpreconfirmableMarked ==
    [][DrainStep =>
        /\ LET link == to_candidate(validated_ + 1) IN
           (/\ is_associated(link)
            /\ ~is_malleable(link)
            /\ ~is_under_bypass(validated_ + 1)
            /\ FailsValidation(link))
              => /\ bstate' = [bstate EXCEPT ![link] = "unconfirmable"]
                 /\ last'.events = <<[tag |-> "unpreconfirmable",
                                      value |-> link]>>
                 /\ validated_' = validated_
        /\ \A i \in DOMAIN last'.events :
              last'.events[i].tag = "unpreconfirmable"
                 => /\ i = Len(last'.events)
                    /\ last'.events[i].value = to_candidate(validated_' + 1)
                    /\ bstate'[last'.events[i].value] = "unconfirmable"
                    /\ ~is_malleable(last'.events[i].value)]_vars

\* A drain validated one block and then marked the invalid block above it.
C11_Witness ==
    /\ last.op \in DrainOps
    /\ Len(last.events) = 2
    /\ last.events[1].tag = "preconfirmable"
    /\ last.events[2] = [tag |-> "unpreconfirmable",
                         value |-> to_candidate(validated_ + 1)]
    /\ bstate[to_candidate(validated_ + 1)] = "unconfirmable"
    /\ ~blocks[to_candidate(validated_ + 1)].valid
    /\ bstate[to_candidate(validated_)] = "preconfirmable"

\* Steps in which a do_bump drain ran from validated_, with or without a
\* fault.
BumpStep ==
    /\ last'.op \in DrainOps
    /\ validated_' >= validated_
    /\ last' # last \/ validated_' # validated_ \/ bstate' # bstate

\* C12: bump is idempotent.  In the state a drain leaves, running the drain
\* again, with or without a failing archive call
\* and with the archive's associations and the candidate chain as they are,
\* leaves validated unchanged and emits no preconfirmable event; without a
\* failing call it also changes no block state and does not fault.
C12_BumpIdempotent ==
    [][BumpStep =>
        /\ \A fault \in PreconfirmFaults \cup {NoFault} :
              LET again == do_bump(validated_, fault)' IN
              /\ again.validated = validated_'
              /\ ~Emits(again.events, "preconfirmable")
        /\ LET again == do_bump(validated_, NoFault)' IN
           /\ again.bst = bstate'
           /\ ~again.fault]_vars

\* A drain advanced validated and stopped at an associated candidate, which a
\* further drain validates again.
C12_Witness ==
    /\ last.op = "do_bump"
    /\ last.code = "success"
    /\ Emits(last.events, "preconfirmable")
    /\ validated_ = last.height
    /\ is_associated(to_candidate(validated_ + 1))
    /\ do_bump(validated_, NoFault).events # <<>>

\* Validation of the block at the height does not fail.
Passes(link, height) ==
    \/ is_under_bypass(height) /\ ~is_malleable(link)
    \/ bstate[link] \in Positive
    \/ bstate[link] = "unknown" /\ blocks[link].valid

\* The candidates above validated through the height are all associated and
\* all pass validation.
Ready(height) ==
    /\ ~closed
    /\ height <= get_top_candidate
    /\ \A i \in (validated_ + 1)..height :
          is_associated(to_candidate(i)) /\ Passes(to_candidate(i), i)

C14_GetHashesFront ==
    [][last'.op = "do_get_hashes" =>
        /\ last'.code = "success"
        /\ last'.events = <<>>
        /\ IF maps_ = <<>>
           THEN maps_' = <<>> /\ taken' = taken /\ last'.arg = 0
           ELSE /\ maps_ = <<Head(maps_)>> \o maps_'
                /\ taken' = taken \cup {Head(maps_)}
                /\ last'.arg = Len(Head(maps_))
                /\ last'.arg > 0]_vars

\* get_hashes took the first of two different chunks; the second is now at
\* the front.
C14_Witness ==
    /\ last.op = "do_get_hashes"
    /\ last.arg > 0
    /\ maps_ # <<>>
    /\ Head(maps_) \notin taken
    /\ \E map \in taken : Len(map) = last.arg /\ Len(map) # Len(Head(maps_))

\* C15 (as claimed): a get_hashes that runs immediately after put_hashes(m)
\* returns a chunk with the contents of m.
C15_PutThenGet ==
    (last.op = "do_get_hashes" /\ last.put # <<>>) => last.map = last.put[1]

\* The maps queue holds nothing but the chunk that the put_hashes just before
\* appended to it.
OnlyPut ==
    maps_ = IF JustPut = <<<<>>>> THEN <<>> ELSE JustPut

\* C15 (amended): a get_hashes that runs immediately after put_hashes(m)
\* returns a chunk with the contents of m when the queue held no chunk at the
\* time of put_hashes, and otherwise returns the chunk that was at the front
\* of the queue.
C15_PutThenGetFifo ==
    [][(last'.op = "do_get_hashes" /\ last'.put # <<>>) =>
        /\ last'.put = <<last.map>>
        /\ IF OnlyPut
           THEN last'.map = last.map /\ maps_' = <<>>
           ELSE last'.map = Head(maps_) /\ maps_' = Tail(maps_)]_vars

\* put_hashes(m) on an empty queue was followed by a get_hashes that
\* returned m.
C15_Witness ==
    /\ last.op = "do_get_hashes"
    /\ last.put = <<last.map>>
    /\ last.map # <<>>
    /\ maps_ = <<>>

\* The effect of a put_hashes that restores its chunk.
Restored ==
    /\ maps_' = Append(maps_, last'.map)
    /\ last'.events = <<[tag |-> "download", value |-> Len(last'.map)]>>
    /\ last'.code = "success"

\* C16 (as claimed): put_hashes(map) appends the chunk at the back of the
\* maps queue, emits one download event carrying the chunk's size and invokes
\* its handler with success.
C16_PutHashesRestores ==
    [][last'.op = "do_put_hashes" => Restored]_vars

\* C16 (amended): put_hashes(map) with a map that is not empty appends the
\* chunk at the back of the maps queue, behind every chunk already queued,
\* emits one download event carrying the chunk's size and invokes its handler
\* with success; with an empty map it leaves the queue as it is, emits no
\* event and invokes its handler with success.
C16_PutHashesRestoresNonEmpty ==
    [][last'.op = "do_put_hashes" =>
        IF last'.map # <<>> THEN Restored
        ELSE maps_' = maps_ /\ last'.events = <<>>
                /\ last'.code = "success"]_vars

\* put_hashes restored a chunk behind a different chunk that was queued.
C16_Witness ==
    /\ last.op = "do_put_hashes"
    /\ last.map # <<>>
    /\ Len(maps_) >= 2
    /\ maps_[Len(maps_)] = last.map
    /\ maps_[1] # last.map
    /\ last.events = <<[tag |-> "download", value |-> Len(last.map)]>>

\* Hashes handed out by get_hashes whose block has not been received.
Outstanding ==
    {link \in UNION {Range(map) : map \in taken} : link \notin assoc}

\* C17: when a channel stops, every hash that get_hashes handed out and whose
\* block has not been received is in the maps queue again, where a later
\* get_hashes obtains it.
C17_StopRestoresRemaining ==
    [][last'.op = "stopping" =>
        \A link \in Outstanding :
            \E i \in DOMAIN maps_' : link \in Range(maps_'[i])]_vars

Exempt(h) ==
    \/ is_at(get_height(h))
    \/ milestone_equals(h, get_height(h))

\* The branch of h has more work than the candidates above its branch point.
Stronger(h) == IncomingWork(h) > CandidateWork(ForkHeight(h))

Mismatch(headers, i) ==
    previous_block_hash(headers[i]) #
        (IF i = 1 THEN header_state_.hash ELSE headers[i - 1])

\* C20: in the header-in protocol a header whose previous_hash differs from
\* the channel's rolling state hash stops the channel with
\* protocol_violation, and neither it nor any later header of the message is
\* handed to organize; in organize an entry whose parent is neither the
\* cached top, nor in the tree, nor in the archive fails with orphan and no
\* state changes.
C20_PreviousHashMismatch ==
    [][/\ last'.op = "handle_receive_headers" =>
            \A i \in DOMAIN received'.headers :
                Mismatch(received'.headers, i) =>
                    /\ header_stopped'
                    /\ received'.code = "protocol_violation"
                    /\ Len(received'.handed) < i
                    /\ received'.handed =
                          SubSeq(received'.headers, 1, Len(received'.handed))
                    /\ posted' = posted \o received'.handed
       /\ (/\ last'.op = "organize"
           /\ ~closed
           /\ ParentUnknown(last'.arg))
            => /\ last'.code = "orphan"
               /\ UNCHANGED <<archiveVars, organizerVars, faults, admitted,
                              strandVars, checkVars, preconfirmVars>>]_vars

\* A channel stopped at the second header of a message, whose first header
\* was handed to organize, and organize has since failed an entry as orphan.
C20_Witness ==
    /\ header_stopped
    /\ received.code = "protocol_violation"
    /\ Len(received.headers) >= 2
    /\ received.handed = <<received.headers[1]>>
    /\ previous_block_hash(received.headers[2]) # received.headers[1]
    /\ last.op = "organize"
    /\ last.code = "orphan"
    /\ last.arg \notin archived
    /\ last.arg \notin DOMAIN tree

\* C24: an archive failure during organize makes the handler receive
\* store_integrity and closes the organizer, and once the organizer is closed
\* every organize call fails with service_stopped and changes neither the
\* tree nor the candidate chain.
C24_StoreFailureCloses ==
    [][/\ faults' # faults =>
            (last'.op = "organize" /\ last'.code = "store_integrity"
                /\ closed')
       /\ (last'.op = "organize" /\ last'.code = "store_integrity") => closed'
       /\ closed =>
            /\ closed'
            /\ last'.op = "organize" => last'.code = "service_stopped"
            /\ UNCHANGED <<tree, candidate>>]_vars

\* C25: once an organizer has handled the global stop event on its strand
\* its tree is empty.
C25_StopClearsTree ==
    last.op \in {"handle_event", "do_handle_event"} => tree = <<>>

\* C26: when the hash passed to organize is already archived as a header, the
\* handler receives block_unconfirmable with the stored height if the stored
\* state is block_unconfirmable; otherwise the header organizer fails
\* duplicate, and the block organizer fails duplicate unless the stored state
\* is unassociated, in which case admission continues.
C26_ArchivedHeader ==
    [][(/\ last' # last
        /\ last'.op = "organize"
        /\ faults' = faults
        /\ ~closed
        /\ last'.arg \notin DOMAIN tree
        /\ last'.arg \in archived)
         => IF bstate[last'.arg] = "unconfirmable"
            THEN /\ last'.code = "block_unconfirmable"
                 /\ last'.height = get_height(last'.arg)
            ELSE IF ~is_block \/ last'.arg \in assoc
            THEN last'.code = "duplicate"
            ELSE last'.code \notin {"duplicate", "block_unconfirmable"}]_vars

\* The codes of an organize call that was refused.
Refusals == {"duplicate", "orphan", "checkpoint_conflict", "invalid"}

\* C27: an organize call that ends with duplicate, orphan,
\* checkpoint_conflict or a validation error leaves the tree, the candidate
\* chain and the cached top state unchanged, emits no event and does not
\* close the organizer; the organizer closes only with store_integrity or
\* internal_error.
C27_RefusalChangesNothing ==
    [][/\ (last'.op = "organize" /\ last'.code \in Refusals) =>
            /\ UNCHANGED <<tree, candidate, state_, closed>>
            /\ ~closed'
            /\ last'.events = <<>>
            /\ UNCHANGED <<check_strand, preconfirm_strand>>
       /\ (~closed /\ closed') =>
            last'.code \in {"store_integrity", "internal_error"}]_vars

\* A header that fails validation has been refused while the tree holds
\* another entry, and the organizer is open.
C27_Witness ==
    /\ last.op = "organize"
    /\ last.code = "invalid"
    /\ tree # <<>>
    /\ ~closed

\* The former candidates that the step took off the candidate chain.
Popped == Range(candidate) \ Range(candidate')

\* C28 (as claimed): after a strong reorganization every former candidate
\* that was popped above the branch point is in the organizer's tree.
C28_PoppedInTree ==
    [][(last'.op = "organize" /\ last'.code = "success") =>
          \A e \in Popped : e \in DOMAIN tree']_vars

\* C28 (amended): after a strong reorganization every former candidate that
\* was popped above the branch point stays archived as a header and is not in
\* the organizer's tree.
C28_PoppedStaysArchived ==
    [][(last'.op = "organize" /\ last'.code = "success") =>
          \A e \in Popped : e \in archived' /\ e \notin DOMAIN tree']_vars

\* The entry organized last is the top candidate, and an archived header of
\* its height, a former candidate, is neither candidate nor in the tree.
C28_Witness ==
    /\ last.op = "organize"
    /\ last.code = "success"
    /\ ~closed
    /\ last.arg = to_candidate(get_top_candidate)
    /\ \E e \in archived :
          /\ e \notin Range(candidate)
          /\ e \notin DOMAIN tree
          /\ get_height(e) > 0
          /\ get_height(e) <= get_top_candidate
          /\ to_parent(e) \in Range(candidate)

\* The entries of the tree on the path from h down to the first header that
\* is not in the tree.
RECURSIVE TreeAncestors(_)
TreeAncestors(h) ==
    IF h = Terminal \/ previous_block_hash(h) \notin DOMAIN tree THEN {}
    ELSE {previous_block_hash(h)} \cup TreeAncestors(previous_block_hash(h))

\* C29: a tree entry leaves the tree when it is pushed to the candidate
\* chain: after a successful organize no hash is both in the tree and on the
\* candidate chain, and the tree entries a reorganization promotes are exactly
\* the tree ancestors of the new entry.
C29_PromotedLeaveTree ==
    [][(last'.op = "organize" /\ last'.code = "success") =>
          /\ (DOMAIN tree') \cap Range(candidate') = {}
          /\ (DOMAIN tree) \ (DOMAIN tree') =
                IF last'.arg \in Range(candidate')
                THEN TreeAncestors(last'.arg) ELSE {}
          /\ (DOMAIN tree) \ (DOMAIN tree') \subseteq Range(candidate')]_vars

\* The entry organized last is the top candidate and its parent, which could
\* not be stored when it was organized, is a candidate and not in the tree.
C29_Witness ==
    /\ last.op = "organize"
    /\ last.code = "success"
    /\ get_top_candidate >= 2
    /\ last.arg = to_candidate(get_top_candidate)
    /\ LET parent == get_candidate_chain_state(get_top_candidate - 1) IN
       /\ parent.hash \notin Range(confirmed)
       /\ parent.hash \notin DOMAIN tree
       /\ parent.work < MinimumWork
       /\ ~is_at(parent.height)
       /\ ~milestone_equals(parent.hash, parent.height)

\* The greatest height up to which the step left the candidate chain as it
\* was.
BranchPoint ==
    CHOOSE n \in 0..NumHeaders :
        /\ n < Len(candidate) /\ n < Len(candidate')
        /\ SubSeq(candidate, 1, n + 1) = SubSeq(candidate', 1, n + 1)
        /\ \/ n + 1 = Len(candidate)
           \/ n + 1 = Len(candidate')
           \/ candidate[n + 2] # candidate'[n + 2]

\* C30: organize emits a header (or block) event only after a successful
\* reorganization, at most once per call, carrying the branch-point height,
\* and only if the organizer is the block organizer or the new top is
\* current; an entry that is cached in the tree emits no such event.
C30_EventOnReorganization ==
    [][last'.op = "organize" =>
          /\ last'.events # <<>> =>
                /\ last'.code = "success"
                /\ candidate' # candidate
                /\ candidate'[Len(candidate')] = last'.arg
                /\ Len(last'.events) = 1
                /\ last'.events[1].tag = chase_object
                /\ last'.events[1].value = BranchPoint
                /\ is_block \/ last'.current
          /\ (last'.arg \in DOMAIN tree') => last'.events = <<>>]_vars

\* s is the first n elements of t.
IsPrefix(s, t) == Len(s) <= Len(t) /\ s = SubSeq(t, 1, Len(s))

\* C23: the headers of a message are handed to organize in message order
\* (the calls a headers message adds to the organizer's strand are a prefix
\* of the message, behind the calls already posted), the strand runs the
\* posted calls first in, first out, so the calls of one channel run in the
\* order they were issued, and a call of another channel is queued wherever
\* it was issued between them.
C23_ChannelOrder ==
    [][/\ (~header_stopped /\ <<header_stopped, header_state_>>'
                               # <<header_stopped, header_state_>>) =>
            /\ IsPrefix(received'.handed, received'.headers)
            /\ posted' = posted \o received'.handed
       /\ (posted # <<>> /\ ~IsPrefix(posted, posted')) =>
            /\ last'.op = "organize"
            /\ last'.arg = Head(posted)
            /\ posted' = Tail(posted)]_vars

\* Of the two calls of one message the first has run and the second is
\* queued ahead of the call of another channel.
C23_Witness ==
    /\ Len(received.handed) = 2
    /\ last.op = "organize"
    /\ last.arg = received.handed[1]
    /\ Len(posted) = 2
    /\ posted[1] = received.handed[2]
    /\ posted[2] # received.handed[1]
    /\ posted[2] # received.handed[2]

\* The block is the one the tracker expects next and does not follow the
\* rolling state.
OutOfOrder(hash) ==
    /\ tracker.hashes # <<>>
    /\ back(tracker.hashes) = hash
    /\ previous_block_hash(hash) # block_state_.hash

LegacyBlock == last'.op = "protocol_block_in::handle_receive_block"

OrganizePaths ==
    {"service_stopped", "duplicate", "orphan", "checkpoint_conflict",
     "invalid", "success", "store_integrity", "block_unconfirmable"}

\* The call that ran last was organize of h, and it invoked its handler once.
Ran(h) == last.op = "organize" /\ last.arg = h /\ last.handled = 1

RECURSIVE RollForward(_, _)
RollForward(from, to) ==
    IF to <= from THEN get_candidate_chain_state(from)
    ELSE chain_state(RollForward(from, to - 1), to_candidate(to))

DisorganizeDone ==
    /\ last'.op = "disorganize"
    /\ last'.code = "success"
    /\ ~closed'

C31_DisorganizedInTree ==
    [][DisorganizeDone =>
        \A index \in (get_fork + 1)..get_top_candidate :
            /\ to_candidate(index) \in DOMAIN tree'
            /\ tree'[to_candidate(index)] = RollForward(get_fork, index)]_vars

\* Two candidates above the fork point were disorganized and both are in the
\* tree, the upper one with the state rolled forward through the lower one.
C31_Witness ==
    /\ last.op = "disorganize"
    /\ last.code = "success"
    /\ ~closed
    /\ last.arg \in DOMAIN tree
    /\ last.arg \notin Range(candidate)
    /\ previous_block_hash(last.arg) \in DOMAIN tree
    /\ tree[last.arg].height = tree[previous_block_hash(last.arg)].height + 1
    /\ tree[last.arg].work =
          tree[previous_block_hash(last.arg)].work + proof(last.arg)

\* ---------------------------------------------------------------------------
\* C32: disorganize of a link that is not a candidate block changes nothing
\* and emits no event; disorganize of a candidate whose height is zero,
\* unknown or at or below the fork point closes the organizer with
\* internal_error before any candidate is popped or marked.
\* ---------------------------------------------------------------------------
Untouched ==
    UNCHANGED <<archived, candidate, confirmed, assoc, bstate, tree, state_,
                check_strand, preconfirm_strand>>

AtOrBelowFork(link) ==
    get_height(link) = 0 \/ get_height(link) <= get_fork

C32_DisorganizePreconditions ==
    [][last'.op = "disorganize" =>
        /\ ~is_candidate_block(last'.arg) =>
              /\ Untouched
              /\ closed' = closed
              /\ last'.events = <<>>
        /\ (~closed /\ is_candidate_block(last'.arg)
                /\ AtOrBelowFork(last'.arg)) =>
              /\ last'.code = "internal_error"
              /\ closed'
        /\ last'.code = "internal_error" =>
              /\ Untouched
              /\ closed'
              /\ last'.events = <<>>]_vars

\* A candidate at the fork point, above genesis, was given: the organizer is
\* closed and the candidate is still on the chain, not marked.
C32_Witness ==
    /\ last.op = "disorganize"
    /\ last.code = "internal_error"
    /\ closed
    /\ is_candidate_block(last.arg)
    /\ get_height(last.arg) > 0
    /\ get_height(last.arg) <= get_fork
    /\ bstate[last.arg] # "unconfirmable"
    /\ Len(candidate) > get_height(last.arg) + 1

\* ---------------------------------------------------------------------------
\* C33: on a header event with branch point h, chaser_check appends to the
\* back of maps one chunk per scan of the unassociated candidates above h:
\* each chunk is non-empty and of at most inventory_ entries, each scan
\* starts at the last height of the chunk before it and the scan after the
\* last chunk finds none; one download event carries the number of entries
\* added, none when nothing was added; the chunks already queued stay where
\* they were.
\* ---------------------------------------------------------------------------
Added == SubSeq(maps_', Len(maps_) + 1, Len(maps_'))

\* The height the k-th scan starts from, given the chunks scanned before it.
ScanStart(chunks, h, k) ==
    IF k = 1 THEN h ELSE get_height(chunks[k - 1][Len(chunks[k - 1])])

C33_HeaderEventAppends ==
    [][last'.op = "do_add_headers" =>
        LET h == last'.arg
            n == Len(Added)
            total == Sum([k \in 1..n |-> Len(Added[k])], 1, n)
        IN
        /\ IsPrefix(maps_, maps_')
        /\ \A k \in 1..n :
              /\ Added[k] # <<>>
              /\ Len(Added[k]) <= inventory_
              /\ Added[k] =
                    get_unassociated_above(ScanStart(Added, h, k), inventory_)
        /\ get_unassociated_above(ScanStart(Added, h, n + 1), inventory_) = <<>>
        /\ last'.events =
              IF total = 0 THEN <<>>
              ELSE <<[tag |-> "download", value |-> total]>>]_vars

\* One header event added a full chunk and, from a second scan, a partial one.
C33_Witness ==
    /\ last.op = "do_add_headers"
    /\ last.events = <<[tag |-> "download", value |-> inventory_ + 1]>>
    /\ Len(maps_) >= 2
    /\ Len(maps_[Len(maps_) - 1]) = inventory_
    /\ Len(maps_[Len(maps_)]) = 1

\* ---------------------------------------------------------------------------
\* C34: on a disorganized event chaser_check clears maps entirely and emits
\* purge, and a channel receives that purge before any download that
\* chaser_check emits afterwards: the events reach the channel's strand in
\* the order chaser_check notified them, and the strand hands them to the
\* channel from the front.
\* ---------------------------------------------------------------------------
C34_PurgeBeforeDownload ==
    [][/\ last'.op = "do_purge_headers" =>
            /\ maps_' = <<>>
            /\ last'.events = <<[tag |-> "purge", value |-> last'.arg]>>
            /\ channel_strand' = channel_strand \o last'.events
       /\ channel_strand' # channel_strand =>
            \/ /\ channel_strand' = channel_strand \o last'.events
               /\ last'.op \in {"do_add_headers", "do_purge_headers",
                                "do_put_hashes", "stopping"}
            \/ /\ channel_strand # <<>>
               /\ channel_strand' = Tail(channel_strand)
               /\ last'.op = IF Head(channel_strand).tag = "purge"
                             THEN "do_purge" ELSE "do_get_downloads"]_vars

\* The channel has handled a purge while a download that chaser_check
\* emitted after it waits on the channel's strand, and maps holds the chunk
\* that download announced.
C34_Witness ==
    /\ last.op = "do_purge"
    /\ channel_strand # <<>>
    /\ Head(channel_strand).tag = "download"
    /\ maps_ # <<>>

\* ---------------------------------------------------------------------------
\* C35: a checked(h) event starts the drain only when h = validated + 1; for
\* any other h it changes neither validated nor the archive and emits no
\* event.
\* ---------------------------------------------------------------------------
\* The heights of the checked events handled by the step.
JustChecked == arrived \ arrived'

C35_CheckedOnlyNext ==
    [][\A h \in JustChecked :
          IF h = validated_ + 1
          THEN /\ validated_' = do_bump(validated_, NoFault).validated
               /\ bstate' = do_bump(validated_, NoFault).bst
          ELSE /\ UNCHANGED <<validated_, archived, candidate, confirmed,
                              assoc, bstate, blocks, malleated, closed>>
               /\ UNCHANGED <<last, strandVars>>]_vars

\* The block at height validated + 2 has arrived and its checked event has
\* been handled while the block below it is missing: it is not validated.
C35_Witness ==
    /\ arrived = {}
    /\ ~is_associated(to_candidate(validated_ + 1))
    /\ is_associated(to_candidate(validated_ + 2))
    /\ bstate[to_candidate(validated_ + 2)] = "unknown"
    /\ last.op # "do_checked"

\* ---------------------------------------------------------------------------
\* C36: preconfirm validates strictly in height order.  A handler leaves
\* validated at or above the height it started from (the value a reset gave
\* it, otherwise the old validated) and has emitted exactly one
\* preconfirmable event for each height above that one through the new
\* validated, in ascending order, the candidate at each of these heights
\* being associated.  So validated increases by one per event and between
\* two resets no height is skipped or emitted twice.
\* ---------------------------------------------------------------------------
\* The heights of the preconfirmable events the step emitted, in order.
Preconfirmed ==
    IF last' = last THEN <<>>
    ELSE LET es == SelectSeq(last'.events,
                             LAMBDA e : e.tag = "preconfirmable")
         IN [i \in DOMAIN es |-> es[i].value]

\* The height the step's drain starts above: the branch point or top a reset
\* gave validated, otherwise validated as it was.
DrainBase ==
    IF last' # last /\ last'.op = "do_disorganized" THEN last'.arg
    ELSE IF last' # last /\ last'.op = "do_regressed"
               /\ last'.arg < validated_
    THEN last'.arg
    ELSE validated_

C36_HeightOrder ==
    [][/\ validated_' >= DrainBase
       /\ Preconfirmed =
             [i \in 1..(validated_' - DrainBase) |-> DrainBase + i]
       /\ \A h \in (DrainBase + 1)..validated_' :
             is_associated(to_candidate(h))]_vars

\* One drain validated two heights and emitted their events in order.
C36_Witness ==
    /\ last.op \in {"do_bump", "do_checked", "do_regressed", "do_disorganized"}
    /\ Len(last.events) >= 2
    /\ last.events[1] = [tag |-> "preconfirmable", value |-> validated_ - 1]
    /\ last.events[2] = [tag |-> "preconfirmable", value |-> validated_]
    /\ bstate[to_candidate(validated_)] = "preconfirmable"
    /\ bstate[to_candidate(validated_ - 1)] = "preconfirmable"

\* ---------------------------------------------------------------------------
\* C37: a reset of validated is followed by a drain.  On regressed(p) with p
\* below validated, and on disorganized(top), validated is set to the given
\* height and do_bump runs from there: the handler leaves validated and the
\* block states as the drain from the reset height leaves them, so the
\* associated valid candidates directly above it are validated at once.
\* ---------------------------------------------------------------------------
Reset ==
    /\ last' # last
    /\ \/ last'.op = "do_regressed" /\ last'.arg < validated_
       \/ last'.op = "do_disorganized"

C37_ResetThenDrain ==
    [][Reset =>
        /\ validated_' = do_bump(last'.arg, NoFault).validated
        /\ bstate' = do_bump(last'.arg, NoFault).bst]_vars

\* ---------------------------------------------------------------------------
\* C38: a block-in channel records the chunk it obtains from get_hashes as
\* its map_ (so that the blocks of the chunk are found in map_ when they
\* arrive, and only a block that was not requested stops the channel).
\* ---------------------------------------------------------------------------
C38_ChunkRecorded ==
    [][(last' # last /\ last'.op = "do_get_hashes" /\ is_idle) =>
          map_' = last'.map]_vars

\* ---------------------------------------------------------------------------
\* C39: download work is owned by one holder at a time.  No header link
\* appears twice within the maps queue, in the queue and in a chunk that was
\* handed out, or in two chunks that were handed out.
\* ---------------------------------------------------------------------------
RECURSIVE Flatten(_)
Flatten(chunks) ==
    IF chunks = <<>> THEN <<>> ELSE Head(chunks) \o Flatten(Tail(chunks))

NoLinkTwice(links) ==
    \A i, j \in DOMAIN links : links[i] = links[j] => i = j

C39_OneHolder ==
    /\ NoLinkTwice(Flatten(maps_))
    /\ \A chunk \in taken : Range(chunk) \cap Range(Flatten(maps_)) = {}
    /\ \A c1, c2 \in taken : c1 # c2 => Range(c1) \cap Range(c2) = {}

\* ---------------------------------------------------------------------------
\* C40: a channel whose get_hashes returned an empty chunk sends no get_data
\* and idles, and on the next download event it requests work again: an
\* idle channel that handles a download event receives the front chunk of
\* maps.  No running channel idles forever while the maps queue is not empty.
\* ---------------------------------------------------------------------------
\* The channel called get_hashes in the step.
Requested == last' # last /\ last'.op \in {"handle_get_hashes", "do_get_downloads"}

====
